---------------------------- MODULE Spec2Model ----------------------------
(***************************************************************************)
(* A model of the event pipeline of the streamdeck plugin SDK:             *)
(*   - HandlersRegistry and the handler catalogs (event_handlers/)         *)
(*   - PluginManager's decode-and-dispatch loop (manager.py)               *)
(*   - EventListenerManager, the thread-per-listener aggregator            *)
(*     (event_listener.py)                                                 *)
(* Each subsystem has its own specification over the shared variables.     *)
(***************************************************************************)
EXTENDS Integers, Sequences, FiniteSets, TLC

(***************************************************************************)
(* Bounds of the model.                                                    *)
(***************************************************************************)
\* the most register() calls on one registry
MaxCatalogs == 3
\* the most handlers held by the ActionBase catalogs together
MaxHandlers == 2
\* the most messages one listener yields
MaxMsgs == 3
\* the most stop() calls the consumer makes from inside its loop body
MaxBodyStops == 1
\* the most catalogs the plugin author registers with register_action
MaxActions == 2
\* the most add_model calls a plugin makes on one EventAdapter
MaxAddedModels == 1
\* the number of messages each listener of the interleaving scenario yields
\* (MockEventListener.events)
ScenarioMsgs == 3

(***************************************************************************)
(* The universe of values.                                                 *)
(***************************************************************************)
\* Python's None
None == "None"

\* event names: keyDown is a ContextualEventMixin event, deviceDidConnect is not
Tags == {"keyDown", "deviceDidConnect"}

\* the event name of the model a custom listener brings along
CustomTag == "custom"

\* an event name no model has
BogusTag == "bogus"

\* a custom model of two event names, EventBase["test", "testing"]
TestTags == {"test", "testing"}

\* every event name of the model
EventNames == Tags \cup {CustomTag, BogusTag} \cup TestTags

\* action uuids carried by events; "com.x" is the uuid of no catalog
ActionUuids == {"com.a", "com.b", "com.x"}

\* the catalog objects the plugin author has created
CatalogIds == 1..4

\* the class of each catalog object
CatalogKind(c) ==
    CASE c = 1 -> "Action"
      [] c = 2 -> "Action"
      [] c = 3 -> "GlobalAction"
      [] OTHER -> "PluginState"

\* Action.uuid; the other classes have no uuid attribute
CatalogUuid(c) ==
    CASE c = 1 -> "com.a"
      [] c = 2 -> "com.b"
      [] OTHER -> None

\* isinstance(catalog, ActionBase): Action and GlobalAction keep their handlers
\* in the instance dict _events, filled by on()
IsActionBase(c) == CatalogKind(c) \in {"Action", "GlobalAction"}

\* isinstance(catalog, Action)
IsAction(c) == CatalogKind(c) = "Action"

\* handler functions the plugin author decorates with ActionBase.on
Funcs == {"f", "g"}

\* all handler functions: "h" is one whose signature fits neither shape
HandlerFuncs == Funcs \cup {"h", "s"}

\* the methods PluginState marks with @on, per event name, in class-body order
MethodHandlers(tag) ==
    CASE tag = "deviceDidConnect" -> <<"add_device">>
      [] OTHER -> <<>>

VARIABLES
    \* HandlersRegistry._plugin_event_handler_catalogs: list of catalog objects
    plugin_event_handler_catalogs,
    \* ActionBase._events of each catalog: event name -> set of handler functions
    events,
    \* the ActionBase.on calls made on each catalog for each event name: the
    \* functions passed, in the order of the calls (kept by no object of the
    \* program; it records what the caller did)
    registration_order,
    \* the last get_event_handlers call on the registry: its arguments and
    \* the sequence it yielded
    lastQuery,
    \* PluginState.data: device id -> [info, actions], actions: action uuid ->
    \* instance id -> [settings, coordinates]
    state_data,
    \* PluginState.action_instances: the set of instance ids seen to appear
    action_instances,
    \* the last call made on the PluginState object: the event handled or the
    \* read made, with its arguments and the value it returned
    handled,
    \* EventListenerManager.listeners_lookup_by_thread: the listeners in the
    \* order of add_listener (a dict keeps insertion order), one thread each
    listeners_lookup_by_thread,
    \* EventListenerManager.event_queue: the shared FIFO queue
    event_queue,
    \* EventListenerManager.running
    running,
    \* where each listener's worker thread is in _listener_wrapper
    wpc,
    \* how many messages each listener's listen() has yielded
    sent,
    \* whether EventListener.stop() has been called on each listener
    stop_called,
    \* where the consumer of event_stream() is
    cpc,
    \* the messages event_stream() has yielded to its consumer, in order
    delivered,
    \* the stop() call in progress: its position, the index of the thread it
    \* is at, and the caller it returns to
    spc, stopIdx, stopFrom,
    \* how many times the consumer has called stop() from its loop body
    bodyStops,
    \* how the consumer sequence ended: "sentinel" (dequeued), "close" (the
    \* consumer broke out of its loop), or "none" while it has not ended
    endedBy,
    \* EventAdapter._event_names: the event names of the models added so far
    \* (add_model appends to _models and updates _event_names together)
    event_names,
    \* EventAdapter._type_adapter: <<>> for None, or <<the event names of the
    \* models the TypeAdapter was built from>>
    type_adapter,
    \* where PluginManager is: "setup" before run(), "pull" waiting for the
    \* next message of the stream, "dispatch" inside _dispatch_event,
    \* "connected" once run() holds a connection,
    \* "stopped" after run() returned, "failed" after an exception left run()
    mpc,
    \* the raw message _stream_event_data received last, <<>> or <<message>>;
    \* forgotten once its dispatch has returned
    message,
    \* the event being dispatched, or NoEvent: the last message was dropped or
    \* its dispatch has returned
    event,
    \* the handlers the registry's generator has yet to yield to _dispatch_event
    pending,
    \* the handler calls made for the current event, in order
    invoked,
    \* the exception that left run(), or None
    error,
    \* WebSocketClient._client of the client run() creates: None before
    \* start(), "connected" once connect() returned, "closed" after close()
    client,
    \* the messages passed to WebSocketClient.send_event, in order
    sent_events,
    \* the EventAdapter instances constructed so far: for each its _models, its _event_names and
    \* its cached _type_adapter (<<>> or <<the models it was built from>>)
    adapters,
    \* an event instance at hand, the JSON document at hand, and what
    \* validate_json made of that document
    original,
    dumped,
    decoded

registryVars == <<plugin_event_handler_catalogs, events, registration_order, lastQuery>>

listenerVars == <<listeners_lookup_by_thread, event_queue, running, wpc, sent,
                  stop_called, cpc, delivered, spc, stopIdx, stopFrom, bodyStops,
                  endedBy>>

managerVars == <<event_names, type_adapter, mpc, message, event, pending, invoked,
                 error>>

stateVars == <<state_data, action_instances, handled>>

clientVars == <<client, sent_events>>

codecVars == <<adapters, original, dumped, decoded>>

vars == <<registryVars, listenerVars, managerVars, stateVars, clientVars, codecVars>>

(***************************************************************************)
(* Helpers.                                                                *)
(***************************************************************************)
\* every order in which the elements of the finite set S can be iterated
Perms(S) ==
    {s \in [1..Cardinality(S) -> S] : \A i, j \in 1..Cardinality(S) : s[i] = s[j] => i = j}

\* how often x occurs in the sequence s
Count(s, x) == Cardinality({i \in 1..Len(s) : s[i] = x})

\* the elements of a sequence
Range(s) == {s[i] : i \in 1..Len(s)}

\* a yielded handler: the function and the catalog that owns it
Entry(c, f) == [cat |-> c, fn |-> f]

(***************************************************************************)
(* The handler catalogs.                                                   *)
(***************************************************************************)
\* ActionBase.get_event_handlers that stops after the first function of the set
CatalogGetEventHandlersFirstOnly(c, tag) ==
    IF IsActionBase(c)
    THEN IF tag \notin DOMAIN events[c]
         THEN {<<>>}
         ELSE {[i \in 1..(IF Len(p) = 0 THEN 0 ELSE 1) |-> Entry(c, p[i])] :
                  p \in Perms(events[c][tag])}
    ELSE {[i \in 1..Len(MethodHandlers(tag)) |-> Entry(c, MethodHandlers(tag)[i])]}

\* a mutant of ActionBase.get_event_handlers: the catalog keeps a list, one
\* entry for every on call
CatalogGetEventHandlersPerCall(c, tag) ==
    IF IsActionBase(c)
    THEN IF tag \notin DOMAIN events[c]
         THEN {<<>>}
         ELSE {[i \in 1..Len(registration_order[c][tag]) |->
                   Entry(c, registration_order[c][tag][i])]}
    ELSE {[i \in 1..Len(MethodHandlers(tag)) |-> Entry(c, MethodHandlers(tag)[i])]}

\* ActionBase.get_event_handlers / HandlerMethodCatalogMixin.get_event_handlers:
\* the sequences one catalog can yield for tag. An ActionBase iterates a set,
\* whose order Python does not tie to the order of registration.
CatalogGetEventHandlers(c, tag) ==
    IF IsActionBase(c)
    THEN IF tag \notin DOMAIN events[c]
         THEN {<<>>}
         ELSE {[i \in 1..Len(p) |-> Entry(c, p[i])] : p \in Perms(events[c][tag])}
    ELSE {[i \in 1..Len(MethodHandlers(tag)) |-> Entry(c, MethodHandlers(tag)[i])]}

\* get_registered_event_names: the keys of _events (on() creates a key together
\* with its first handler), or of the class-level _handlers
GetRegisteredEventNames(c) ==
    IF IsActionBase(c)
    THEN {t \in DOMAIN events[c] : events[c][t] # {}}
    ELSE {t \in Tags : MethodHandlers(t) # <<>>}

(***************************************************************************)
(* HandlersRegistry.                                                       *)
(***************************************************************************)
\* a mutant of Skipped: the registry filters nothing
SkippedNever(c, event_action_uuid) == FALSE

\* a mutant of Skipped: the isinstance(catalog, Action) test is lost, and every
\* catalog whose uuid is not the event's is skipped
SkippedWithoutIsinstance(c, event_action_uuid) ==
    event_action_uuid # None /\ CatalogUuid(c) # event_action_uuid

\* a mutant of Skipped: the `is not None` test is lost
SkippedWithoutNoneTest(c, event_action_uuid) ==
    IsAction(c) /\ CatalogUuid(c) # event_action_uuid

\* the `continue` condition of get_event_handlers
Skipped(c, event_action_uuid) ==
    event_action_uuid # None /\ (IsAction(c) /\ CatalogUuid(c) # event_action_uuid)

\* the sequences get_event_handlers(event_name, event_action_uuid) can yield
\* from the catalogs at positions i.. of the list
RECURSIVE YieldsFrom(_, _, _)
YieldsFrom(i, event_name, event_action_uuid) ==
    IF i > Len(plugin_event_handler_catalogs)
    THEN {<<>>}
    ELSE LET c == plugin_event_handler_catalogs[i]
             rest == YieldsFrom(i + 1, event_name, event_action_uuid)
         IN  IF Skipped(c, event_action_uuid)
             THEN rest
             ELSE {s \o r : s \in CatalogGetEventHandlers(c, event_name), r \in rest}

\* a mutant of the iteration: the catalogs are gone through from the last one
\* registered to the first
RegistryGetEventHandlersReversed(event_name, event_action_uuid) ==
    {[k \in 1..Len(y) |-> y[Len(y) + 1 - k]] :
        y \in YieldsFrom(1, event_name, event_action_uuid)}

RegistryGetEventHandlers(event_name, event_action_uuid) ==
    YieldsFrom(1, event_name, event_action_uuid)

\* the number of handler entries held by the ActionBase catalogs
TotalHandlers ==
    Cardinality(UNION {UNION {{<<c, t, f>> : f \in events[c][t]} : t \in DOMAIN events[c]} :
                       c \in CatalogIds})

\* the number of ActionBase.on calls made so far
TotalCalls ==
    Cardinality(UNION {UNION {{<<c, t, k>> : k \in 1..Len(registration_order[c][t])} :
                              t \in DOMAIN registration_order[c]} : c \in CatalogIds})

\* the functions of a sequence of on calls in the order of their first call
RECURSIVE FirstRegistrations(_)
FirstRegistrations(calls) ==
    IF calls = <<>>
    THEN <<>>
    ELSE LET before == FirstRegistrations(SubSeq(calls, 1, Len(calls) - 1))
             f == calls[Len(calls)]
         IN  IF f \in Range(before) THEN before ELSE Append(before, f)

NoQuery == [tag |-> None, scope |-> None, yielded |-> <<>>]

\* ActionBase.on(event_name)(func): add func to the set of event_name, which
\* the defaultdict creates for a name it has no key for; the name is not
\* checked
On(c, tag, f) ==
    /\ IsActionBase(c)
    /\ TotalCalls < MaxHandlers
    /\ events' = IF tag \in DOMAIN events[c]
                 THEN [events EXCEPT ![c][tag] = @ \cup {f}]
                 ELSE [events EXCEPT ![c] = (tag :> {f}) @@ @]
    /\ registration_order' =
          IF tag \in DOMAIN registration_order[c]
          THEN [registration_order EXCEPT
                   ![c][tag] = Append(@, f)]
          ELSE [registration_order EXCEPT ![c] = (tag :> <<f>>) @@ @]
    /\ lastQuery' = NoQuery
    /\ UNCHANGED <<plugin_event_handler_catalogs, listenerVars, managerVars, stateVars, clientVars, codecVars>>

\* HandlersRegistry.register(catalog): append, with no check of any kind
Register(c) ==
    /\ Len(plugin_event_handler_catalogs) < MaxCatalogs
    /\ plugin_event_handler_catalogs' = Append(plugin_event_handler_catalogs, c)
    /\ lastQuery' = NoQuery
    /\ UNCHANGED <<events, registration_order, listenerVars, managerVars, stateVars, clientVars, codecVars>>

\* HandlersRegistry.get_event_handlers(event_name, event_action_uuid), iterated
\* to its end
GetEventHandlers(tag, scope) ==
    /\ \E y \in RegistryGetEventHandlers(tag, scope) :
          lastQuery' = [tag |-> tag, scope |-> scope, yielded |-> y]
    /\ UNCHANGED <<plugin_event_handler_catalogs, events, registration_order,
                   listenerVars, managerVars, stateVars, clientVars, codecVars>>

\* HandlersRegistry.__init__ and ActionBase.__init__ of every catalog
InitRegistry ==
    /\ plugin_event_handler_catalogs = <<>>
    /\ events = [c \in CatalogIds |-> [t \in Tags |-> {}]]
    /\ registration_order = [c \in CatalogIds |-> [t \in Tags |-> <<>>]]
    /\ lastQuery = NoQuery

\* the decorator is applied to a function the catalog does not hold for the
\* event name
OnFirst(c, tag, f) ==
    /\ tag \in DOMAIN events[c] => f \notin events[c][tag]
    /\ On(c, tag, f)

\* the decorator is applied again to a function the catalog holds for the
\* event name
OnAgain(c, tag, f) ==
    /\ tag \in DOMAIN events[c]
    /\ f \in events[c][tag]
    /\ On(c, tag, f)

NextRegistry ==
    \/ \E c \in CatalogIds, t \in Tags, f \in Funcs : OnFirst(c, t, f)
    \/ \E c \in CatalogIds : Register(c)
    \/ \E t \in Tags, s \in ActionUuids \cup {None} : GetEventHandlers(t, s)

\* the registry with functions that are registered more than once, queried
\* for events that are not action-specific
NextRegistryRepeat ==
    \/ \E c \in CatalogIds, t \in Tags, f \in Funcs : OnFirst(c, t, f)
    \/ \E c \in CatalogIds, t \in Tags, f \in Funcs : OnAgain(c, t, f)
    \/ \E c \in CatalogIds : Register(c)
    \/ \E t \in Tags : GetEventHandlers(t, None)

(***************************************************************************)
(* EventListenerManager.                                                   *)
(***************************************************************************)
\* the listener objects the plugin author has created
Listeners == {1, 2}

\* the n-th message listener l yields
Msg(l, k) == [src |-> l, n |-> k]

\* _SENTINAL. The model notes who enqueued it (a listener's worker, or 0 for
\* stop()); is_sentinal cannot tell them apart.
Sentinel(origin) == [src |-> origin, n |-> 0]

\* _SENTINAL.is_sentinal
IsSentinal(item) == item.n = 0

\* Thread.is_alive: started and not yet finished
IsAlive(l) == wpc[l] \in {"listen", "check"}

\* the consumer sequence of event_stream() has ended
StreamEnded == cpc \in {"finally", "ended"}

\* EventListenerManager.__init__
InitListener ==
    /\ listeners_lookup_by_thread = <<>>
    /\ event_queue = <<>>
    /\ running = FALSE
    /\ wpc = [l \in Listeners |-> "unstarted"]
    /\ sent = [l \in Listeners |-> 0]
    /\ stop_called = [l \in Listeners |-> FALSE]
    /\ cpc = "idle"
    /\ delivered = <<>>
    /\ spc = "none"
    /\ stopIdx = 0
    /\ stopFrom = "none"
    /\ bodyStops = 0
    /\ endedBy = "none"

\* add_listener(listener): create the listener's thread, not started yet.
\* Listener l is the l-th listener added.
AddListener(l) ==
    /\ cpc = "idle"
    /\ l = Len(listeners_lookup_by_thread) + 1
    /\ listeners_lookup_by_thread' = Append(listeners_lookup_by_thread, l)
    /\ UNCHANGED <<event_queue, running, wpc, sent, stop_called, cpc, delivered,
                   spc, stopIdx, stopFrom, bodyStops, endedBy, registryVars, managerVars,
                   stateVars, clientVars, codecVars>>

\* event_stream(), up to its first queue.get(): set running and start the threads
EventStreamStart ==
    /\ cpc = "idle"
    /\ running' = TRUE
    /\ wpc' = [l \in Listeners |->
                 IF l \in Range(listeners_lookup_by_thread) THEN "listen" ELSE wpc[l]]
    /\ cpc' = "get"
    /\ UNCHANGED <<listeners_lookup_by_thread, event_queue, sent, stop_called,
                   delivered, spc, stopIdx, stopFrom, bodyStops, endedBy,
                   registryVars, managerVars, stateVars, clientVars, codecVars>>

\* a mutant of ListenYield: the worker thread hands the message to the
\* plugin's processing itself instead of enqueuing it
ListenYieldDispatches(l) ==
    /\ wpc[l] = "listen"
    /\ sent[l] < MaxMsgs
    /\ sent' = [sent EXCEPT ![l] = @ + 1]
    /\ delivered' = Append(delivered, Msg(l, sent[l] + 1))
    /\ wpc' = [wpc EXCEPT ![l] = "check"]
    /\ UNCHANGED <<listeners_lookup_by_thread, running, stop_called, cpc, event_queue,
                   spc, stopIdx, stopFrom, bodyStops, endedBy, registryVars, managerVars,
                   stateVars, clientVars, codecVars>>

\* _listener_wrapper: listen() yields its next message and the worker puts it
\* on the queue
ListenYield(l) ==
    /\ wpc[l] = "listen"
    /\ sent[l] < MaxMsgs
    /\ sent' = [sent EXCEPT ![l] = @ + 1]
    /\ event_queue' = Append(event_queue, Msg(l, sent[l] + 1))
    /\ wpc' = [wpc EXCEPT ![l] = "check"]
    /\ UNCHANGED <<listeners_lookup_by_thread, running, stop_called, cpc, delivered,
                   spc, stopIdx, stopFrom, bodyStops, endedBy, registryVars, managerVars,
                   stateVars, clientVars, codecVars>>

\* a mutant of CheckRunning: the worker does not test the flag and asks
\* listen() for the next message
CheckRunningIgnoresFlag(l) ==
    /\ wpc[l] = "check"
    /\ wpc' = [wpc EXCEPT ![l] = "listen"]
    /\ UNCHANGED <<listeners_lookup_by_thread, event_queue, running, sent, stop_called,
                   cpc, delivered, spc, stopIdx, stopFrom, bodyStops, endedBy,
                   registryVars, managerVars, stateVars, clientVars, codecVars>>

\* _listener_wrapper: `if not self.running: break` after the put; the break
\* leaves the for loop as the end of listen() does
CheckRunning(l) ==
    /\ wpc[l] = "check"
    /\ wpc' = [wpc EXCEPT ![l] = IF running THEN "listen" ELSE "returned"]
    /\ UNCHANGED <<listeners_lookup_by_thread, event_queue, running, sent, stop_called,
                   cpc, delivered, spc, stopIdx, stopFrom, bodyStops, endedBy,
                   registryVars, managerVars, stateVars, clientVars, codecVars>>

\* _listener_wrapper: listen() returns, the for loop ends
ListenReturn(l) ==
    /\ wpc[l] = "listen"
    /\ wpc' = [wpc EXCEPT ![l] = "returned"]
    /\ UNCHANGED <<listeners_lookup_by_thread, event_queue, running, sent, stop_called,
                   cpc, delivered, spc, stopIdx, stopFrom, bodyStops, endedBy,
                   registryVars, managerVars, stateVars, clientVars, codecVars>>

\* WebSocketClient.listen: the WebSocketException classes a failing recv() is
\* told apart by (normal close, close with error, other close, other error)
WebSocketExceptions ==
    {"ConnectionClosedOK", "ConnectionClosedError", "ConnectionClosed",
     "WebSocketException"}

\* what a call of recv() can raise: a WebSocketException or another exception
RecvFailures == WebSocketExceptions \cup {"Exception"}

\* WebSocketClient.listen: what listen() raises when recv() raises exc: every
\* WebSocketException is logged and replaced by StopStreaming, any other
\* exception is logged and raised again
ListenRaises(exc) ==
    IF exc \in WebSocketExceptions THEN "StopStreaming" ELSE exc

\* a mutant of ListenStopStreaming: StopStreaming is handled like any other
\* exception, and no sentinel is enqueued
ListenStopStreamingNoSentinel(l) ==
    /\ wpc[l] = "listen"
    /\ wpc' = [wpc EXCEPT ![l] = "stop_streaming"]
    /\ UNCHANGED <<listeners_lookup_by_thread, event_queue, running, sent, stop_called,
                   cpc, delivered, spc, stopIdx, stopFrom, bodyStops, endedBy,
                   registryVars, managerVars, stateVars, clientVars, codecVars>>

\* _listener_wrapper: listen() raises StopStreaming, the worker enqueues the
\* sentinel and ends
ListenStopStreaming(l) ==
    /\ wpc[l] = "listen"
    /\ \E exc \in RecvFailures : ListenRaises(exc) = "StopStreaming"
    /\ event_queue' = Append(event_queue, Sentinel(l))
    /\ wpc' = [wpc EXCEPT ![l] = "stop_streaming"]
    /\ UNCHANGED <<listeners_lookup_by_thread, running, sent, stop_called, cpc,
                   delivered, spc, stopIdx, stopFrom, bodyStops, endedBy,
                   registryVars, managerVars, stateVars, clientVars, codecVars>>

\* a mutant of ListenException: any exception of a listener ends the stream
ListenExceptionEndsStream(l) ==
    /\ wpc[l] = "listen"
    /\ event_queue' = Append(event_queue, Sentinel(l))
    /\ wpc' = [wpc EXCEPT ![l] = "failed"]
    /\ UNCHANGED <<listeners_lookup_by_thread, running, sent, stop_called, cpc,
                   delivered, spc, stopIdx, stopFrom, bodyStops, endedBy,
                   registryVars, managerVars, stateVars, clientVars, codecVars>>

\* _listener_wrapper: listen() raises another exception, which is logged; the
\* worker ends
ListenException(l) ==
    /\ wpc[l] = "listen"
    /\ \E exc \in RecvFailures : ListenRaises(exc) # "StopStreaming"
    /\ wpc' = [wpc EXCEPT ![l] = "failed"]
    /\ UNCHANGED <<listeners_lookup_by_thread, event_queue, running, sent, stop_called,
                   cpc, delivered, spc, stopIdx, stopFrom, bodyStops, endedBy,
                   registryVars, managerVars, stateVars, clientVars, codecVars>>

\* the first statement of stop() for a call that starts now
EnterStop(from) ==
    /\ spc' = "set_flag"
    /\ stopIdx' = 0
    /\ stopFrom' = from

\* a mutant of Get: the sentinel is yielded like a message
GetYieldsSentinel ==
    /\ cpc = "get"
    /\ spc = "none"
    /\ event_queue # <<>>
    /\ event_queue' = Tail(event_queue)
    /\ delivered' = Append(delivered, Head(event_queue))
    /\ cpc' = "body"
    /\ UNCHANGED <<listeners_lookup_by_thread, running, wpc, sent, stop_called,
                   spc, stopIdx, stopFrom, bodyStops, endedBy, registryVars, managerVars,
                   stateVars, clientVars, codecVars>>

\* a mutant of Get: the queue hands out its newest entry first
GetLifo ==
    /\ cpc = "get"
    /\ spc = "none"
    /\ event_queue # <<>>
    /\ LET last == event_queue[Len(event_queue)]
       IN  /\ event_queue' = SubSeq(event_queue, 1, Len(event_queue) - 1)
           /\ IF IsSentinal(last)
              THEN /\ cpc' = "finally"
                   /\ endedBy' = "sentinel"
                   /\ EnterStop("finally")
                   /\ UNCHANGED delivered
              ELSE /\ cpc' = "body"
                   /\ delivered' = Append(delivered, last)
                   /\ UNCHANGED <<spc, stopIdx, stopFrom, endedBy>>
    /\ UNCHANGED <<listeners_lookup_by_thread, running, wpc, sent, stop_called,
                   bodyStops, registryVars, managerVars, stateVars, clientVars, codecVars>>

\* a mutant of Get: a dequeued message is sometimes dropped
GetLossy ==
    /\ cpc = "get"
    /\ spc = "none"
    /\ event_queue # <<>>
    /\ event_queue' = Tail(event_queue)
    /\ IF IsSentinal(Head(event_queue))
       THEN /\ cpc' = "finally"
            /\ endedBy' = "sentinel"
            /\ EnterStop("finally")
            /\ UNCHANGED delivered
       ELSE /\ cpc' = "body"
            /\ delivered' \in {delivered, Append(delivered, Head(event_queue))}
            /\ UNCHANGED <<spc, stopIdx, stopFrom, endedBy>>
    /\ UNCHANGED <<listeners_lookup_by_thread, running, wpc, sent, stop_called,
                   bodyStops, registryVars, managerVars, stateVars, clientVars, codecVars>>

\* event_stream: event_queue.get() returns the head of the queue; the sentinel
\* breaks the loop and enters the finally clause, anything else is yielded
Get ==
    /\ cpc = "get"
    /\ spc = "none"
    /\ event_queue # <<>>
    /\ event_queue' = Tail(event_queue)
    /\ IF IsSentinal(Head(event_queue))
       THEN /\ cpc' = "finally"
            /\ endedBy' = "sentinel"
            /\ EnterStop("finally")
            /\ UNCHANGED delivered
       ELSE /\ cpc' = "body"
            /\ delivered' = Append(delivered, Head(event_queue))
            /\ UNCHANGED <<spc, stopIdx, stopFrom, endedBy>>
    /\ UNCHANGED <<listeners_lookup_by_thread, running, wpc, sent, stop_called,
                   bodyStops, registryVars, managerVars, stateVars, clientVars, codecVars>>

\* the consumer's loop body ends and it asks event_stream for the next message
BodyContinue ==
    /\ cpc = "body"
    /\ spc = "none"
    /\ cpc' = "get"
    /\ UNCHANGED <<listeners_lookup_by_thread, event_queue, running, wpc, sent,
                   stop_called, delivered, spc, stopIdx, stopFrom, bodyStops,
                   endedBy, registryVars, managerVars, stateVars, clientVars, codecVars>>

\* the consumer breaks out of its loop: the generator is closed at its yield
\* and the finally clause runs
BodyBreak ==
    /\ cpc = "body"
    /\ spc = "none"
    /\ cpc' = "finally"
    /\ endedBy' = "close"
    /\ EnterStop("finally")
    /\ UNCHANGED <<listeners_lookup_by_thread, event_queue, running, wpc, sent,
                   stop_called, delivered, bodyStops, registryVars, managerVars,
                   stateVars, clientVars, codecVars>>

\* the consumer's loop body raises: the exception unwinds the for statement,
\* the generator is closed at its yield and the finally clause runs
BodyRaise ==
    /\ cpc = "body"
    /\ spc = "none"
    /\ cpc' = "finally"
    /\ endedBy' = "exception"
    /\ EnterStop("finally")
    /\ UNCHANGED <<listeners_lookup_by_thread, event_queue, running, wpc, sent,
                   stop_called, delivered, bodyStops, registryVars, managerVars,
                   stateVars, clientVars, codecVars>>

\* the consumer calls stop() from its loop body
BodyStop ==
    /\ cpc = "body"
    /\ spc = "none"
    /\ bodyStops < MaxBodyStops
    /\ bodyStops' = bodyStops + 1
    /\ EnterStop("body")
    /\ UNCHANGED <<listeners_lookup_by_thread, event_queue, running, wpc, sent,
                   stop_called, cpc, delivered, endedBy, registryVars, managerVars,
                   stateVars, clientVars, codecVars>>

\* a mutant of StopSetFlag: stop() flips the flag instead of clearing it
StopSetFlagToggles ==
    /\ spc = "set_flag"
    /\ running' = ~running
    /\ spc' = "put_sentinel"
    /\ UNCHANGED <<listeners_lookup_by_thread, event_queue, wpc, sent, stop_called,
                   cpc, delivered, stopIdx, stopFrom, bodyStops, endedBy,
                   registryVars, managerVars, stateVars, clientVars, codecVars>>

\* stop(): self.running = False
StopSetFlag ==
    /\ spc = "set_flag"
    /\ running' = FALSE
    /\ spc' = "put_sentinel"
    /\ UNCHANGED <<listeners_lookup_by_thread, event_queue, wpc, sent, stop_called,
                   cpc, delivered, stopIdx, stopFrom, bodyStops, endedBy,
                   registryVars, managerVars, stateVars, clientVars, codecVars>>

\* stop(): self.event_queue.put(_SENTINAL)
StopPutSentinel ==
    /\ spc = "put_sentinel"
    /\ event_queue' = Append(event_queue, Sentinel(0))
    /\ spc' = "stop_listener"
    /\ stopIdx' = 1
    /\ UNCHANGED <<listeners_lookup_by_thread, running, wpc, sent, stop_called, cpc,
                   delivered, stopFrom, bodyStops, endedBy, registryVars, managerVars,
                   stateVars, clientVars, codecVars>>

\* a mutant of StopListener: stop() joins the thread without calling the
\* listener's stop()
StopListenerSkipsCall ==
    /\ spc = "stop_listener"
    /\ stopIdx <= Len(listeners_lookup_by_thread)
    /\ spc' = "join"
    /\ UNCHANGED <<listeners_lookup_by_thread, event_queue, running, wpc, sent, cpc,
                   delivered, stopIdx, stopFrom, bodyStops, endedBy, stop_called,
                   registryVars, managerVars, stateVars, clientVars, codecVars>>

\* stop(): the next thread of the loop: call its listener's stop()
StopListener ==
    /\ spc = "stop_listener"
    /\ stopIdx <= Len(listeners_lookup_by_thread)
    /\ stop_called' = [stop_called EXCEPT ![listeners_lookup_by_thread[stopIdx]] = TRUE]
    /\ spc' = "join"
    /\ UNCHANGED <<listeners_lookup_by_thread, event_queue, running, wpc, sent, cpc,
                   delivered, stopIdx, stopFrom, bodyStops, endedBy,
                   registryVars, managerVars, stateVars, clientVars, codecVars>>

\* a mutant of StopJoin: join() returns only for a thread whose loop ended
\* normally
StopJoinOnlyReturned ==
    /\ spc = "join"
    /\ wpc[listeners_lookup_by_thread[stopIdx]] = "returned"
    /\ spc' = "stop_listener"
    /\ stopIdx' = stopIdx + 1
    /\ UNCHANGED <<listeners_lookup_by_thread, event_queue, running, wpc, sent,
                   stop_called, cpc, delivered, stopFrom, bodyStops, endedBy,
                   registryVars, managerVars, stateVars, clientVars, codecVars>>

\* a mutant of StopJoin: stop() moves on without waiting for the thread
StopJoinNoWait ==
    /\ spc = "join"
    /\ spc' = "stop_listener"
    /\ stopIdx' = stopIdx + 1
    /\ UNCHANGED <<listeners_lookup_by_thread, event_queue, running, wpc, sent,
                   stop_called, cpc, delivered, stopFrom, bodyStops, endedBy,
                   registryVars, managerVars, stateVars, clientVars, codecVars>>

\* stop(): `if thread.is_alive(): thread.join()` returns once the thread is
\* not alive; join has no timeout
StopJoin ==
    /\ spc = "join"
    /\ ~IsAlive(listeners_lookup_by_thread[stopIdx])
    /\ spc' = "stop_listener"
    /\ stopIdx' = stopIdx + 1
    /\ UNCHANGED <<listeners_lookup_by_thread, event_queue, running, wpc, sent,
                   stop_called, cpc, delivered, stopFrom, bodyStops, endedBy,
                   registryVars, managerVars, stateVars, clientVars, codecVars>>

\* stop() returns: to the consumer's loop body, or out of event_stream's
\* finally clause, which ends the generator
StopReturn ==
    /\ spc = "stop_listener"
    /\ stopIdx > Len(listeners_lookup_by_thread)
    /\ spc' = "none"
    /\ stopIdx' = 0
    /\ stopFrom' = "none"
    /\ cpc' = IF stopFrom = "finally" THEN "ended" ELSE cpc
    /\ UNCHANGED <<listeners_lookup_by_thread, event_queue, running, wpc, sent,
                   stop_called, delivered, bodyStops, endedBy, registryVars, managerVars,
                   stateVars, clientVars, codecVars>>

\* the steps of listener l's worker thread
Worker(l) ==
    \/ ListenYield(l)
    \/ CheckRunning(l)
    \/ ListenReturn(l)
    \/ ListenStopStreaming(l)
    \/ ListenException(l)

\* the steps of a stop() call
Stop ==
    \/ StopSetFlag
    \/ StopPutSentinel
    \/ StopListener
    \/ StopJoin
    \/ StopReturn

\* the steps of the thread that iterates event_stream()
Consumer ==
    \/ EventStreamStart
    \/ Get
    \/ BodyContinue
    \/ BodyBreak
    \/ BodyStop
    \/ Stop

NextListener ==
    \/ \E l \in Listeners : AddListener(l)
    \/ \E l \in Listeners : Worker(l)
    \/ Consumer

(***************************************************************************)
(* EventAdapter and PluginManager. The messages event_stream() hands to    *)
(* _stream_event_data are drawn from RawMessages.                          *)
(***************************************************************************)
\* EventListener.event_models of each listener, as event names: listener 1 is
\* the WebSocketClient of run() (DEFAULT_EVENT_MODELS), listener 2 a custom one
EventModels(l) == IF l = 1 THEN Tags ELSE {CustomTag}

\* isinstance(event, ContextualEventMixin): the model of the event name has the
\* action and context fields
IsContextual(tag) == tag = "keyDown"

\* inspect.signature(handler).parameters, in order: the handler functions a
\* plugin author may decorate, and the bound methods of PluginState, which
\* take event_data only
Params(f) ==
    CASE f = "f" -> <<"event_data", "command_sender">>
      [] f = "h" -> <<"event">>
      [] f = "s" -> <<"command_sender", "event_data">>
      [] OTHER -> <<"event_data">>

\* is_bindable_handler: `command_sender` is among the parameters
IsBindableHandler(f) == "command_sender" \in Range(Params(f))

\* is_not_bindable_handler: exactly one parameter, named `event_data`
IsNotBindableHandler(f) == Len(Params(f)) = 1 /\ "event_data" \in Range(Params(f))

\* the shape _inject_command_sender finds: `command_sender` among the
\* parameters ("bindable"), exactly one named `event_data` ("plain"), or
\* neither ("invalid")
Signature(f) ==
    CASE IsBindableHandler(f) -> "bindable"
      [] IsNotBindableHandler(f) -> "plain"
      [] OTHER -> "invalid"

\* processed_handler(event) binds its arguments: the event is passed by
\* position and takes the first parameter, command_sender is passed by
\* keyword when it was bound; the call raises TypeError when a parameter gets
\* two values or none
CallBinds(f) ==
    /\ Params(f) # <<>>
    /\ ~(IsBindableHandler(f) /\ Params(f)[1] = "command_sender")
    /\ \A i \in 2..Len(Params(f)) :
          IsBindableHandler(f) /\ Params(f)[i] = "command_sender"

\* a raw message: whether it is well-formed JSON, the value of its "event"
\* field, whether the other fields fit the model of that event name, and the
\* value of its "action" field
RawMessage(json, tag, payload, action) ==
    [json |-> json, event |-> tag, payload |-> payload, action |-> action]

\* the messages the stream can yield
RawMessages ==
    {RawMessage(FALSE, None, FALSE, None)}
    \cup {RawMessage(TRUE, "keyDown", TRUE, a) : a \in {"com.a", "com.x"}}
    \cup {RawMessage(TRUE, "keyDown", FALSE, None)}
    \cup {RawMessage(TRUE, t, TRUE, None) : t \in {"deviceDidConnect", CustomTag, BogusTag}}

\* the outcome of validate_json that stands for raising pydantic's
\* ValidationError
ValidationError == [event |-> "ValidationError", action |-> None]

\* no event was yielded
NoEvent == [event |-> None, action |-> None]

\* TypeAdapter.validate_json over the union of models discriminated by
\* "event": the event model, or ValidationError for malformed JSON, an event
\* name of no model, or fields that do not fit the model
ValidateJson(models, data) ==
    IF data.json /\ data.event \in models /\ data.payload
    THEN [event |-> data.event,
          action |-> IF IsContextual(data.event) THEN data.action ELSE None]
    ELSE ValidationError

\* EventAdapter.event_name_exists(event_name)
EventNameExists(event_name) == event_name \in event_names

\* EventAdapter.type_adapter: built from the models on first use, then cached
TypeAdapter == IF type_adapter = <<>> THEN event_names ELSE type_adapter[1]

\* a handler call that returned: the handler, the event passed as event_data,
\* and whether command_sender was bound
Invocation(h, e, bound) ==
    [cat |-> h.cat, fn |-> h.fn, event_data |-> e, command_sender |-> bound,
     raised |-> FALSE]

\* the same call when the handler's body raised
Raising(call) == [call EXCEPT !.raised = TRUE]

\* PluginManager.__init__ and EventAdapter.__init__ (add_model for each of
\* DEFAULT_EVENT_MODELS)
InitManager ==
    /\ event_names = Tags
    /\ type_adapter = <<>>
    /\ mpc = "setup"
    /\ message = <<>>
    /\ event = NoEvent
    /\ pending = <<>>
    /\ invoked = <<>>
    /\ error = None

\* the plugin author decorates a handler before run()
SetupOn(c, tag, f) ==
    /\ mpc = "setup"
    /\ On(c, tag, f)

\* a mutant of RegisterAction: the catalog is registered without validating
\* its event names
RegisterActionUnchecked(c) ==
    /\ mpc = "setup"
    /\ IsActionBase(c)
    /\ Len(plugin_event_handler_catalogs) < MaxActions
    /\ Register(c)

\* register_action(action: ActionBase): _ensure_catalog_has_valid_events
\* raises KeyError for an event name the adapter does not know, before
\* anything is registered; otherwise the catalog is appended to the registry.
\* `error` keeps the exception the caller saw.
RegisterAction(c) ==
    /\ mpc = "setup"
    /\ IsActionBase(c)
    /\ Len(plugin_event_handler_catalogs) < MaxActions
    /\ IF \A event_name \in GetRegisteredEventNames(c) : EventNameExists(event_name)
       THEN Register(c)
       ELSE /\ error' = "KeyError"
            /\ UNCHANGED <<event_names, type_adapter, mpc, message, event, pending,
                           invoked, registryVars, listenerVars,
                   stateVars, clientVars, codecVars>>

\* register_event_listener(listener): add_listener, then add_model for each of
\* the listener's event models
RegisterEventListener(l) ==
    /\ l \notin Range(listeners_lookup_by_thread)
    /\ listeners_lookup_by_thread' = Append(listeners_lookup_by_thread, l)
    /\ event_names' = event_names \cup EventModels(l)

\* the plugin author registers the custom listener before run()
SetupEventListener ==
    /\ mpc = "setup"
    /\ RegisterEventListener(2)
    /\ UNCHANGED <<event_queue, running, wpc, sent, stop_called, cpc, delivered, spc,
                   stopIdx, stopFrom, bodyStops, endedBy, registryVars, type_adapter,
                   mpc, message, event, pending, invoked, error,
                   stateVars, clientVars, codecVars>>

\* PluginManager._register_event and _registration_uuid, passed in by the
\* Stream Deck software when it starts the plugin
RegisterEvent == "registerPlugin"

RegistrationUuid == "registration-uuid"

\* WebSocketClient.__init__: no connection yet, nothing sent
InitClient ==
    /\ client = None
    /\ sent_events = <<>>

\* WebSocketClient.send_event(data): ValueError without a connection;
\* otherwise the message is serialised and sent
SendEvent(data) ==
    /\ client # None
    /\ sent_events' = Append(sent_events, data)

\* WebSocketClient.stop(), called by __exit__: close the connection, if open
ClientStop == client' = IF client # None THEN "closed" ELSE client

\* StreamDeckCommandSender.send_action_registration(register_event): one
\* message with the register event and the plugin registration uuid
SendActionRegistration(register_event) ==
    SendEvent([event |-> register_event, uuid |-> RegistrationUuid])

\* run(): `with WebSocketClient(port) as client`: __enter__ calls start(),
\* which connects
RunConnect ==
    /\ mpc = "setup"
    /\ client' = "connected"
    /\ mpc' = "connected"
    /\ UNCHANGED <<event_names, type_adapter, message, event, pending, invoked, error,
                   sent_events, registryVars, listenerVars, stateVars, codecVars>>

\* run(): start() fails with ConnectionRefusedError, which is logged and
\* raised again; the with block is never entered and run() raises
RunConnectionRefused ==
    /\ mpc = "setup"
    /\ mpc' = "failed"
    /\ error' = "ConnectionRefusedError"
    /\ UNCHANGED <<event_names, type_adapter, message, event, pending, invoked,
                   clientVars, registryVars, listenerVars, stateVars, codecVars>>

\* a mutant of RunRegister: the loop over the stream starts without the
\* registration command having been sent
RunRegisterWithoutRegistration ==
    /\ mpc = "connected"
    /\ RegisterEventListener(1)
    /\ mpc' = "pull"
    /\ UNCHANGED <<event_queue, running, wpc, sent, stop_called, cpc, delivered, spc,
                   stopIdx, stopFrom, bodyStops, endedBy, registryVars, type_adapter,
                   message, event, pending, invoked, error, stateVars, clientVars,
                   codecVars>>

\* run(), inside the with block and up to the first message: register the
\* WebSocketClient as a listener, create the command sender, send the
\* registration command and start iterating _stream_event_data
RunRegister ==
    /\ mpc = "connected"
    /\ RegisterEventListener(1)
    /\ SendActionRegistration(RegisterEvent)
    /\ mpc' = "pull"
    /\ UNCHANGED <<event_queue, running, wpc, sent, stop_called, cpc, delivered, spc,
                   stopIdx, stopFrom, bodyStops, endedBy, registryVars, type_adapter,
                   message, event, pending, invoked, error, stateVars, client,
                   codecVars>>

\* run() with a server that accepts the connection, up to the first message,
\* as one step: connect, register the WebSocketClient as a listener, send the
\* registration command and start iterating _stream_event_data
Run ==
    /\ mpc = "setup"
    /\ RegisterEventListener(1)
    /\ client' = "connected"
    /\ sent_events' = Append(sent_events,
                             [event |-> RegisterEvent, uuid |-> RegistrationUuid])
    /\ mpc' = "pull"
    /\ UNCHANGED <<event_queue, running, wpc, sent, stop_called, cpc, delivered, spc,
                   stopIdx, stopFrom, bodyStops, endedBy, registryVars, type_adapter,
                   message, event, pending, invoked, error, stateVars, codecVars>>

\* a mutant of StreamEventData: ValidationError is not caught
StreamEventDataUncaught(data) ==
    /\ mpc = "pull"
    /\ message' = <<data>>
    /\ type_adapter' = <<TypeAdapter>>
    /\ invoked' = <<>>
    /\ LET model == ValidateJson(TypeAdapter, data)
       IN  IF model = ValidationError
           THEN /\ mpc' = "failed"
                /\ error' = "ValidationError"
                /\ event' = NoEvent
                /\ pending' = <<>>
           ELSE /\ event' = model
                /\ mpc' = "dispatch"
                /\ \E y \in RegistryGetEventHandlers(
                                model.event,
                                IF IsContextual(model.event) THEN model.action ELSE None) :
                      pending' = y
                /\ UNCHANGED error
    /\ ClientStop
    /\ UNCHANGED <<event_names, registryVars, listenerVars, stateVars, sent_events,
                   codecVars>>

\* _stream_event_data receives the next message of the stream: a message that
\* validate_json rejects, or whose event name the adapter does not know, is
\* logged and dropped; otherwise the event is yielded to run(), which calls
\* _dispatch_event: the scope is the event's action if the event is a
\* ContextualEventMixin, and the registry's generator is created
StreamEventData(data) ==
    /\ mpc = "pull"
    /\ message' = <<data>>
    /\ type_adapter' = <<TypeAdapter>>
    /\ invoked' = <<>>
    /\ LET model == ValidateJson(TypeAdapter, data)
       IN  IF model = ValidationError \/ model.event \notin event_names
           THEN /\ event' = NoEvent
                /\ pending' = <<>>
                /\ UNCHANGED mpc
           ELSE /\ event' = model
                /\ mpc' = "dispatch"
                /\ \E y \in RegistryGetEventHandlers(
                                model.event,
                                IF IsContextual(model.event) THEN model.action ELSE None) :
                      pending' = y
    /\ UNCHANGED <<event_names, error, registryVars, listenerVars, stateVars, clientVars, codecVars>>

\* a mutant of InvokeHandler: the handler is called without command_sender
InvokeHandlerNeverBinds ==
    /\ mpc = "dispatch"
    /\ pending # <<>>
    /\ Signature(Head(pending).fn) # "invalid"
    /\ CallBinds(Head(pending).fn)
    /\ invoked' = Append(invoked, Invocation(Head(pending), event, FALSE))
    /\ pending' = Tail(pending)
    /\ UNCHANGED <<event_names, type_adapter, mpc, message, event, error,
                   registryVars, listenerVars, stateVars, clientVars, codecVars>>

\* a mutant of InvokeHandler: the handler is passed over
InvokeHandlerSkipped ==
    /\ mpc = "dispatch"
    /\ pending # <<>>
    /\ Signature(Head(pending).fn) # "invalid"
    /\ CallBinds(Head(pending).fn)
    /\ pending' = Tail(pending)
    /\ UNCHANGED <<event_names, type_adapter, mpc, message, event, invoked, error,
                   registryVars, listenerVars, stateVars, clientVars, codecVars>>

\* _dispatch_event: the generator yields the next handler,
\* _inject_command_sender binds command_sender if the handler declares it,
\* and the handler is called with the event and returns
InvokeHandler ==
    /\ mpc = "dispatch"
    /\ pending # <<>>
    /\ Signature(Head(pending).fn) # "invalid"
    /\ CallBinds(Head(pending).fn)
    /\ invoked' = Append(invoked,
                         Invocation(Head(pending), event,
                                    Signature(Head(pending).fn) = "bindable"))
    /\ pending' = Tail(pending)
    /\ UNCHANGED <<event_names, type_adapter, mpc, message, event, error,
                   registryVars, listenerVars, stateVars, clientVars, codecVars>>

\* a mutant of InvokeHandlerRaises: the dispatcher catches the exception and
\* goes on with the next handler
InvokeHandlerRaisesSwallowed ==
    /\ mpc = "dispatch"
    /\ pending # <<>>
    /\ Signature(Head(pending).fn) # "invalid"
    /\ CallBinds(Head(pending).fn)
    /\ invoked' = Append(invoked,
                         Raising(Invocation(Head(pending), event,
                                            Signature(Head(pending).fn) = "bindable")))
    /\ pending' = Tail(pending)
    /\ UNCHANGED <<event_names, type_adapter, mpc, message, event, error,
                   registryVars, listenerVars, stateVars, clientVars, codecVars>>

\* _dispatch_event: the handler is called and raises; nothing catches the
\* exception, which leaves run()
InvokeHandlerRaises ==
    /\ mpc = "dispatch"
    /\ pending # <<>>
    /\ Signature(Head(pending).fn) # "invalid"
    /\ CallBinds(Head(pending).fn)
    /\ invoked' = Append(invoked,
                         Raising(Invocation(Head(pending), event,
                                            Signature(Head(pending).fn) = "bindable")))
    /\ pending' = Tail(pending)
    /\ mpc' = "failed"
    /\ error' = "HandlerError"
    /\ ClientStop
    /\ UNCHANGED <<event_names, type_adapter, message, event, registryVars,
                   listenerVars, stateVars, sent_events,
                   codecVars>>

\* a mutant of InjectTypeError: a handler of neither shape is passed over
InjectTypeErrorSkips ==
    /\ mpc = "dispatch"
    /\ pending # <<>>
    /\ Signature(Head(pending).fn) = "invalid"
    /\ pending' = Tail(pending)
    /\ UNCHANGED <<event_names, type_adapter, mpc, message, event, invoked, error,
                   registryVars, listenerVars, stateVars, clientVars, codecVars>>

\* _inject_command_sender raises TypeError for a handler of neither shape
InjectTypeError ==
    /\ mpc = "dispatch"
    /\ pending # <<>>
    /\ Signature(Head(pending).fn) = "invalid"
    /\ mpc' = "failed"
    /\ error' = "TypeError"
    /\ ClientStop
    /\ UNCHANGED <<event_names, type_adapter, message, event, pending, invoked,
                   registryVars, listenerVars, stateVars, sent_events,
                   codecVars>>

\* _dispatch_event: processed_handler(event) raises TypeError while binding
\* its arguments, before the handler's body runs; nothing catches it
CallTypeError ==
    /\ mpc = "dispatch"
    /\ pending # <<>>
    /\ Signature(Head(pending).fn) # "invalid"
    /\ ~CallBinds(Head(pending).fn)
    /\ pending' = Tail(pending)
    /\ mpc' = "failed"
    /\ error' = "TypeError"
    /\ ClientStop
    /\ UNCHANGED <<event_names, type_adapter, message, event, invoked, registryVars,
                   listenerVars, stateVars, sent_events,
                   codecVars>>

\* _dispatch_event returns once the generator is exhausted, and
\* _stream_event_data asks for the next message
DispatchReturn ==
    /\ mpc = "dispatch"
    /\ pending = <<>>
    /\ mpc' = "pull"
    /\ message' = <<>>
    /\ event' = NoEvent
    /\ invoked' = <<>>
    /\ UNCHANGED <<event_names, type_adapter, pending, error, registryVars, listenerVars,
                   stateVars, clientVars, codecVars>>

\* the stream ends and run() returns; the locals of the loop are gone
StreamEnd ==
    /\ mpc = "pull"
    /\ mpc' = "stopped"
    /\ message' = <<>>
    /\ event' = NoEvent
    /\ invoked' = <<>>
    /\ ClientStop
    /\ UNCHANGED <<event_names, type_adapter, pending, error, registryVars, listenerVars,
                   stateVars, sent_events,
                   codecVars>>

\* the custom models a plugin may add to the adapter, as sets of event names
CustomModels == {{CustomTag}, TestTags}

\* a mutant of AddModel: only one of the model's event names is merged
AddModelOneName(model) ==
    /\ event_names' = event_names \cup {CHOOSE event_name \in model : TRUE}
    /\ UNCHANGED <<type_adapter, mpc, message, event, pending, invoked, error,
                   registryVars, listenerVars, stateVars, clientVars, codecVars>>

\* EventAdapter.add_model(model): the model is appended to _models and its
\* event names are merged into _event_names; the cached TypeAdapter is left
\* as it is
AddModel(model) ==
    /\ event_names' = event_names \cup model
    /\ UNCHANGED <<type_adapter, mpc, message, event, pending, invoked, error,
                   registryVars, listenerVars, stateVars, clientVars, codecVars>>

\* the messages handed to validate_json directly
AdapterMessages ==
    {RawMessage(TRUE, t, TRUE, None) : t \in {"deviceDidConnect", CustomTag, "testing", BogusTag}}
    \cup {RawMessage(TRUE, CustomTag, FALSE, None)}

\* EventAdapter.validate_json(data), called on the adapter itself: the
\* type_adapter property builds the TypeAdapter from _models on its first use
\* and returns the cached one afterwards; the event model is returned, or
\* ValidationError is raised
AdapterValidateJson(data) ==
    /\ mpc = "setup"
    /\ message' = <<data>>
    /\ type_adapter' = <<TypeAdapter>>
    /\ LET model == ValidateJson(TypeAdapter, data)
       IN  IF model = ValidationError
           THEN /\ event' = NoEvent
                /\ error' = "ValidationError"
           ELSE /\ event' = model
                /\ UNCHANGED error
    /\ UNCHANGED <<event_names, mpc, pending, invoked, registryVars, listenerVars,
                   stateVars, clientVars, codecVars>>

\* the operations on the EventAdapter and the registrations that consult it
NextAdapter ==
    \/ \E c \in CatalogIds, t \in {"keyDown", CustomTag} : SetupOn(c, t, "g")
    \/ \E c \in CatalogIds : RegisterAction(c)
    \/ SetupEventListener
    \/ \E model \in CustomModels : AddModel(model)
    \/ \E data \in AdapterMessages : AdapterValidateJson(data)

NextManager ==
    \/ \E c \in CatalogIds, t \in Tags, f \in HandlerFuncs : SetupOn(c, t, f)
    \/ \E c \in CatalogIds : RegisterAction(c)
    \/ SetupEventListener
    \/ Run
    \/ \E data \in RawMessages : StreamEventData(data)
    \/ InvokeHandler
    \/ InvokeHandlerRaises
    \/ InjectTypeError
    \/ CallTypeError
    \/ DispatchReturn
    \/ StreamEnd

\* run() step by step, for a plugin with one action: the connection, which
\* the server may refuse, the registration, and the loop over the stream
NextRun ==
    \/ \E f \in HandlerFuncs : SetupOn(1, "keyDown", f)
    \/ RegisterAction(1)
    \/ SetupEventListener
    \/ RunConnect
    \/ RunConnectionRefused
    \/ RunRegister
    \/ \E data \in RawMessages : StreamEventData(data)
    \/ InvokeHandler
    \/ InvokeHandlerRaises
    \/ InjectTypeError
    \/ CallTypeError
    \/ DispatchReturn
    \/ StreamEnd

\* ---------------------------------------------------------------------------
\* PluginState (state.py): the tree of device, action and instance data kept
\* from the events the plugin has seen
\* ---------------------------------------------------------------------------

\* the device ids, instance ids, device infos, settings and coordinates that
\* occur in events; an instance id belongs to one device and one action
Devices == {"device1", "device2"}

Instances == {"context1", "context2", "context3"}

DeviceOf(i) == IF i = "context3" THEN "device2" ELSE "device1"

ActionOf(i) == IF i = "context2" THEN "com.b" ELSE "com.a"

Infos == {"info1", "info2"}

EmptySettings == "{}"

SettingsValues == {EmptySettings, "{key: value}"}

CoordinatesValues == {"(0, 0)"}

\* ActionInstanceDataDictModel(): settings or {}, coordinates or None
ActionInstanceDataDictModel == [settings |-> EmptySettings, coordinates |-> None]

\* DeviceDataDictModel(info): actions or {}, info
DeviceDataDictModel(info) == [info |-> info, actions |-> <<>>]

\* RootDefaultDictModel.__getitem__ on a dict m: the dict with key, holding
\* default when the key was missing
GetItem(m, key, default) ==
    IF key \in DOMAIN m THEN m ELSE (key :> default) @@ m

\* RootDefaultDictModel.pop(key, None): the dict without key
Pop(m, key) == [k \in DOMAIN m \ {key} |-> m[k]]

\* _get_action_instance_reference(device, action, context): the tree after
\* data[device].actions[action][context], which creates every missing level
GetActionInstanceReference(tree, device, action, context) ==
    LET devices == GetItem(tree, device, DeviceDataDictModel(None))
        actions == GetItem(devices[device].actions, action, <<>>)
        contexts == GetItem(actions[action], context, ActionInstanceDataDictModel)
    IN  [devices EXCEPT ![device].actions = [actions EXCEPT ![action] = contexts]]

\* the instance ids nested under a device node
NestedInstances(device_data) ==
    UNION {DOMAIN device_data.actions[a] : a \in DOMAIN device_data.actions}

\* the (device, action, instance) paths of the tree
Paths(tree) ==
    UNION {UNION {{<<d, a, i>> : i \in DOMAIN tree[d].actions[a]} :
                     a \in DOMAIN tree[d].actions} : d \in DOMAIN tree}

\* the record of a call on the PluginState object
Handled(name, device, action, context, settings, coordinates, info, returned) ==
    [name |-> name, device |-> device, action |-> action, context |-> context,
     settings |-> settings, coordinates |-> coordinates, info |-> info,
     returned |-> returned]

\* PluginState.__init__
InitState ==
    /\ state_data = <<>>
    /\ action_instances = {}
    /\ handled = Handled(None, None, None, None, None, None, None, None)

\* a mutant of add_device: the test for a device already in the tree is lost
AddDeviceOverwrites(device, info) ==
    /\ state_data' = (device :> DeviceDataDictModel(info)) @@ state_data
    /\ handled' = Handled("deviceDidConnect", device, None, None, None, None, info, None)
    /\ UNCHANGED <<action_instances, registryVars, listenerVars, managerVars,
                   clientVars, codecVars>>

\* add_device, the handler of deviceDidConnect: nothing when the device is in
\* the tree, else a new device node with the event's device info
AddDevice(device, info) ==
    /\ state_data' = IF device \in DOMAIN state_data
                     THEN state_data
                     ELSE (device :> DeviceDataDictModel(info)) @@ state_data
    /\ handled' = Handled("deviceDidConnect", device, None, None, None, None, info, None)
    /\ UNCHANGED <<action_instances, registryVars, listenerVars, managerVars,
                   clientVars, codecVars>>

\* a mutant of remove_data_for_device: the device node is popped and
\* action_instances is left as it was
RemoveDataForDeviceKeepsInstances(device) ==
    /\ state_data' = Pop(state_data, device)
    /\ handled' = Handled("deviceDidDisconnect", device, None, None, None, None, None, None)
    /\ UNCHANGED <<action_instances, registryVars, listenerVars, managerVars,
                   clientVars, codecVars>>

\* a mutant of remove_data_for_device: action_instances is emptied, the
\* instances of the other devices included
RemoveDataForDeviceClearsAll(device) ==
    /\ state_data' = Pop(state_data, device)
    /\ action_instances' = IF device \in DOMAIN state_data THEN {} ELSE action_instances
    /\ handled' = Handled("deviceDidDisconnect", device, None, None, None, None, None, None)
    /\ UNCHANGED <<registryVars, listenerVars, managerVars,
                   clientVars, codecVars>>

\* remove_data_for_device, the handler of deviceDidDisconnect: pop the device
\* node and take every instance id nested under it out of action_instances
RemoveDataForDevice(device) ==
    /\ state_data' = Pop(state_data, device)
    /\ action_instances' =
          IF device \in DOMAIN state_data
          THEN action_instances \ NestedInstances(state_data[device])
          ELSE action_instances
    /\ handled' = Handled("deviceDidDisconnect", device, None, None, None, None, None, None)
    /\ UNCHANGED <<registryVars, listenerVars, managerVars,
                   clientVars, codecVars>>

\* a mutant of set_initial_state: the coordinates are assigned without the
\* isinstance test, so a multi-action payload resets them to None
SetInitialStateAlwaysCoordinates(device, action, context, settings, coordinates) ==
    /\ state_data' =
          [GetActionInstanceReference(state_data, device, action, context) EXCEPT
                   ![device].actions[action][context] =
                       [settings |-> settings, coordinates |-> coordinates]]
    /\ action_instances' = action_instances \cup {context}
    /\ handled' = Handled("willAppear", device, action, context, settings, coordinates,
                          None, None)
    /\ UNCHANGED <<registryVars, listenerVars, managerVars,
                   clientVars, codecVars>>

\* a mutant of set_initial_state: the device node is created anew, without the
\* action nodes it had
SetInitialStateFreshDevice(device, action, context, settings, coordinates) ==
    /\ state_data' =
          [GetActionInstanceReference(Pop(state_data, device), device, action, context)
              EXCEPT ![device].actions[action][context] =
                         [settings |-> settings, coordinates |-> coordinates]]
    /\ action_instances' = action_instances \cup {context}
    /\ handled' = Handled("willAppear", device, action, context, settings, coordinates,
                          None, None)
    /\ UNCHANGED <<registryVars, listenerVars, managerVars,
                   clientVars, codecVars>>

\* set_initial_state, the handler of willAppear: coordinates is None for the
\* multi-action payload, which has no coordinates
SetInitialState(device, action, context, settings, coordinates) ==
    /\ state_data' =
          [GetActionInstanceReference(state_data, device, action, context) EXCEPT
                   ![device].actions[action][context] =
                       [settings |-> settings,
                        coordinates |-> IF coordinates # None
                                        THEN coordinates
                                        ELSE @.coordinates]]
    /\ action_instances' = action_instances \cup {context}
    /\ handled' = Handled("willAppear", device, action, context, settings, coordinates,
                          None, None)
    /\ UNCHANGED <<registryVars, listenerVars, managerVars,
                   clientVars, codecVars>>

\* a mutant of update_instance_settings: the node is replaced by a new one
\* with the settings, which loses its coordinates
UpdateInstanceSettingsReplacesNode(device, action, context, settings) ==
    /\ state_data' =
          [GetActionInstanceReference(state_data, device, action, context) EXCEPT
                   ![device].actions[action][context] =
                       [settings |-> settings, coordinates |-> None]]
    /\ handled' = Handled("didReceiveSettings", device, action, context, settings, None,
                          None, None)
    /\ UNCHANGED <<action_instances, registryVars, listenerVars, managerVars,
                   clientVars, codecVars>>

\* update_instance_settings, the handler of didReceiveSettings
UpdateInstanceSettings(device, action, context, settings) ==
    /\ state_data' =
          [GetActionInstanceReference(state_data, device, action, context) EXCEPT
                   ![device].actions[action][context].settings = settings]
    /\ handled' = Handled("didReceiveSettings", device, action, context, settings, None,
                          None, None)
    /\ UNCHANGED <<action_instances, registryVars, listenerVars, managerVars,
                   clientVars, codecVars>>

\* a willDisappear event: PluginState has no method decorated for it, so
\* get_event_handlers yields nothing and the object is left as it was
WillDisappear(device, action, context) ==
    /\ handled' = Handled("willDisappear", device, action, context, None, None, None, None)
    /\ UNCHANGED <<state_data, action_instances, registryVars, listenerVars, managerVars,
                   clientVars, codecVars>>

\* a mutant of the read: a missing key gives a default that is not inserted
ReadSettingsWithoutInsert(device, action, context) ==
    /\ handled' = Handled("read", device, action, context, None, None, None,
                          GetActionInstanceReference(state_data, device, action,
                              context)[device].actions[action][context].settings)
    /\ UNCHANGED <<state_data, action_instances, registryVars, listenerVars, managerVars,
                   clientVars, codecVars>>

\* the plugin reads data[device].actions[action][context].settings
ReadSettings(device, action, context) ==
    /\ state_data' = GetActionInstanceReference(state_data, device, action, context)
    /\ handled' = Handled("read", device, action, context, None, None, None,
                          state_data'[device].actions[action][context].settings)
    /\ UNCHANGED <<action_instances, registryVars, listenerVars, managerVars,
                   clientVars, codecVars>>

\* the events Stream Deck sends name an instance with its device and action
NextStateEvents ==
    \/ \E d \in Devices, info \in Infos : AddDevice(d, info)
    \/ \E d \in Devices : RemoveDataForDevice(d)
    \/ \E i \in Instances, s \in SettingsValues, c \in CoordinatesValues \cup {None} :
          SetInitialState(DeviceOf(i), ActionOf(i), i, s, c)
    \/ \E i \in Instances, s \in SettingsValues :
          UpdateInstanceSettings(DeviceOf(i), ActionOf(i), i, s)
    \/ \E i \in Instances : WillDisappear(DeviceOf(i), ActionOf(i), i)

NextState ==
    \/ NextStateEvents
    \/ \E i \in Instances : ReadSettings(DeviceOf(i), ActionOf(i), i)

\* ---------------------------------------------------------------------------
\* Event models (models/events/*.py): the built-in event shapes, their
\* serialisation to JSON and their validation from JSON
\* ---------------------------------------------------------------------------

\* a scalar value of an event or of a JSON document
Leaf(v) == [leaf |-> v]

\* the value None, and null in JSON
NoneLeaf == Leaf(None)

IsLeaf(v) == DOMAIN v = {"leaf"}

\* what validation yields in place of raising pydantic's ValidationError
Invalid == [cls |-> "ValidationError"]

\* a declared field: its attribute name, its alias (the name itself without
\* one), whether it is required (every field that is not has the default
\* None), and its type: "leaf" for a scalar or plain container, "optional"
\* for Optional[...], "False"/"True" for those Literals, the name of a
\* discriminated union, or the name of a model class
Fld(name, alias, required, type) ==
    [name |-> name, alias |-> alias, required |-> required, type |-> type]

\* DEFAULT_EVENT_MODELS, in the order of the list
DefaultEventModels ==
    <<"ApplicationDidLaunch", "ApplicationDidTerminate", "DeviceDidConnect",
      "DeviceDidDisconnect", "DialDown", "DialRotate", "DialUp", "DidReceiveDeepLink",
      "KeyUp", "KeyDown", "DidReceivePropertyInspectorMessage",
      "PropertyInspectorDidAppear", "PropertyInspectorDidDisappear",
      "DidReceiveGlobalSettings", "DidReceiveSettings", "SystemDidWakeUp",
      "TitleParametersDidChange", "TouchTap", "WillAppear", "WillDisappear">>

\* the event models a plugin may add: one of one event name and
\* EventBase["test", "testing"]
CustomEventModels == {"CustomEvent", "TestEvent"}

\* get_model_event_names(): the event names of the Literal of the event field
ModelEventNames(cls) ==
    CASE cls = "ApplicationDidLaunch" -> {"applicationDidLaunch"}
      [] cls = "ApplicationDidTerminate" -> {"applicationDidTerminate"}
      [] cls = "DeviceDidConnect" -> {"deviceDidConnect"}
      [] cls = "DeviceDidDisconnect" -> {"deviceDidDisconnect"}
      [] cls = "DialDown" -> {"dialDown"}
      [] cls = "DialRotate" -> {"dialRotate"}
      [] cls = "DialUp" -> {"dialUp"}
      [] cls = "DidReceiveDeepLink" -> {"didReceiveDeepLink"}
      [] cls = "KeyUp" -> {"keyUp"}
      [] cls = "KeyDown" -> {"keyDown"}
      [] cls = "DidReceivePropertyInspectorMessage" -> {"sendToPlugin"}
      [] cls = "PropertyInspectorDidAppear" -> {"propertyInspectorDidAppear"}
      [] cls = "PropertyInspectorDidDisappear" -> {"propertyInspectorDidDisappear"}
      [] cls = "DidReceiveGlobalSettings" -> {"didReceiveGlobalSettings"}
      [] cls = "DidReceiveSettings" -> {"didReceiveSettings"}
      [] cls = "SystemDidWakeUp" -> {"systemDidWakeUp"}
      [] cls = "TitleParametersDidChange" -> {"titleParametersDidChange"}
      [] cls = "TouchTap" -> {"touchTap"}
      [] cls = "WillAppear" -> {"willAppear"}
      [] cls = "WillDisappear" -> {"willDisappear"}
      [] cls = "CustomEvent" -> {CustomTag}
      [] cls = "TestEvent" -> TestTags

\* the event classes that list ContextualEventMixin among their bases
ContextualEventMixin ==
    {"DialDown", "DialRotate", "DialUp", "KeyUp", "KeyDown",
     "DidReceivePropertyInspectorMessage", "PropertyInspectorDidAppear",
     "PropertyInspectorDidDisappear", "DidReceiveSettings", "TouchTap",
     "WillAppear", "WillDisappear"}

\* the event classes that list DeviceSpecificEventMixin among their bases
DeviceSpecificEventMixin ==
    {"DeviceDidConnect", "DeviceDidDisconnect", "DialDown", "DialRotate", "DialUp",
     "KeyUp", "KeyDown", "PropertyInspectorDidAppear", "PropertyInspectorDidDisappear",
     "DidReceiveSettings", "TitleParametersDidChange", "TouchTap", "WillAppear",
     "WillDisappear"}

\* the model classes declared on pydantic's BaseModel itself; every other
\* model class derives from ConfiguredBaseModel (serialize_by_alias=True)
PlainBaseModels ==
    {"ApplicationPayload", "EncoderPayload", "DialRotatePayload", "TitleParameters",
     "TitleParametersDidChangePayload"}

\* model_config of the class: whether its fields are serialised by alias
SerializeByAlias(cls) == cls \notin PlainBaseModels

\* the discriminated unions of payload classes: the class chosen for each
\* value of is_in_multi_action
PayloadUnions ==
    [KeyGesturePayload |->
        [False |-> "SingleActionKeyGesturePayload",
         True |-> "MultiActionKeyGesturePayload"],
     SettingsPayload |->
        [False |-> "SingleActionSettingsPayload",
         True |-> "MultiActionSettingsPayload"],
     VisibilityPayload |->
        [False |-> "SingleActionVisibilityPayload",
         True |-> "MultiActionVisibilityPayload"]]

\* the fields the mixins and the event base declare
EventField == Fld("event", "event", TRUE, "leaf")

ContextualFields ==
    <<Fld("action", "action", TRUE, "leaf"), Fld("context", "context", TRUE, "leaf")>>

DeviceField == Fld("device", "device", TRUE, "leaf")

\* the fields the payload mixins declare
IsInMultiAction(literal) == Fld("is_in_multi_action", "isInMultiAction", TRUE, literal)

StateField == Fld("state", "state", FALSE, "optional")

CoordinatesObj == Fld("coordinates_obj", "coordinates", TRUE, "leaf")

\* BasePayload: controller and settings
BasePayload ==
    <<Fld("controller", "controller", TRUE, "leaf"),
      Fld("settings", "settings", TRUE, "leaf")>>

\* the fields of the payload classes and of the models nested in them
PayloadFields(cls) ==
    CASE cls = "ApplicationPayload" ->
            <<Fld("application", "application", TRUE, "leaf")>>
      [] cls = "DeviceInfo" ->
            <<Fld("name", "name", TRUE, "leaf"),
              Fld("type_id", "type", TRUE, "leaf"),
              Fld("size_obj", "size", TRUE, "leaf")>>
      [] cls = "EncoderPayload" ->
            <<Fld("controller", "controller", TRUE, "leaf"),
              Fld("coordinates", "coordinates", TRUE, "leaf"),
              Fld("settings", "settings", TRUE, "leaf")>>
      [] cls = "DialRotatePayload" ->
            <<Fld("controller", "controller", TRUE, "leaf"),
              Fld("coordinates", "coordinates", TRUE, "leaf"),
              Fld("pressed", "pressed", TRUE, "leaf"),
              Fld("ticks", "ticks", TRUE, "leaf"),
              Fld("settings", "settings", TRUE, "leaf")>>
      [] cls = "DeepLinkPayload" ->
            <<Fld("url", "url", TRUE, "leaf")>>
      [] cls = "SingleActionKeyGesturePayload" ->
            <<Fld("controller", "controller", FALSE, "optional"),
              Fld("coordinates", "coordinates", TRUE, "leaf"),
              IsInMultiAction("False"),
              StateField,
              Fld("settings", "settings", TRUE, "leaf")>>
      [] cls = "MultiActionKeyGesturePayload" ->
            <<Fld("controller", "controller", FALSE, "optional"),
              IsInMultiAction("True"),
              StateField,
              Fld("user_desired_state", "userDesiredState", TRUE, "leaf"),
              Fld("settings", "settings", TRUE, "leaf")>>
      [] cls = "GlobalSettingsPayload" ->
            <<Fld("settings", "settings", TRUE, "leaf")>>
      [] cls = "SingleActionSettingsPayload" ->
            BasePayload \o <<IsInMultiAction("False"), StateField, CoordinatesObj>>
      [] cls = "MultiActionSettingsPayload" ->
            BasePayload \o <<IsInMultiAction("True"), StateField>>
      [] cls = "SingleActionVisibilityPayload" ->
            BasePayload \o <<IsInMultiAction("False"), CoordinatesObj>>
      [] cls = "MultiActionVisibilityPayload" ->
            BasePayload \o <<IsInMultiAction("True")>>
      [] cls = "TitleParameters" ->
            <<Fld("font_family", "fontFamily", TRUE, "leaf"),
              Fld("font_size", "fontSize", TRUE, "leaf"),
              Fld("font_style", "fontStyle", TRUE, "leaf"),
              Fld("font_underline", "fontUnderline", TRUE, "leaf"),
              Fld("show_title", "showTitle", TRUE, "leaf"),
              Fld("title_alignment", "titleAlignment", TRUE, "leaf"),
              Fld("title_color", "titleColor", TRUE, "leaf")>>
      [] cls = "TitleParametersDidChangePayload" ->
            <<Fld("controller", "controller", TRUE, "leaf"),
              Fld("coordinates", "coordinates", TRUE, "leaf"),
              Fld("title", "title", TRUE, "leaf"),
              Fld("title_parameters", "titleParameters", TRUE, "TitleParameters"),
              Fld("state", "state", TRUE, "optional"),
              Fld("settings", "settings", TRUE, "leaf")>>
      [] cls = "TouchTapPayload" ->
            <<Fld("controller", "controller", TRUE, "leaf"),
              Fld("coordinates", "coordinates", TRUE, "leaf"),
              Fld("hold", "hold", TRUE, "leaf"),
              Fld("tap_position", "tapPos", TRUE, "leaf"),
              Fld("settings", "settings", TRUE, "leaf")>>

\* the payload field of an event class, or no field for a class without one
EventPayload(cls) ==
    CASE cls \in {"ApplicationDidLaunch", "ApplicationDidTerminate"} ->
            <<Fld("payload", "payload", TRUE, "ApplicationPayload")>>
      [] cls = "DeviceDidConnect" ->
            <<Fld("device_info", "deviceInfo", TRUE, "DeviceInfo")>>
      [] cls \in {"DialDown", "DialUp"} ->
            <<Fld("payload", "payload", TRUE, "EncoderPayload")>>
      [] cls = "DialRotate" ->
            <<Fld("payload", "payload", TRUE, "DialRotatePayload")>>
      [] cls = "DidReceiveDeepLink" ->
            <<Fld("payload", "payload", TRUE, "DeepLinkPayload")>>
      [] cls \in {"KeyUp", "KeyDown"} ->
            <<Fld("payload", "payload", TRUE, "KeyGesturePayload")>>
      [] cls = "DidReceivePropertyInspectorMessage" ->
            <<Fld("payload", "payload", TRUE, "leaf")>>
      [] cls = "DidReceiveGlobalSettings" ->
            <<Fld("payload", "payload", TRUE, "GlobalSettingsPayload")>>
      [] cls = "DidReceiveSettings" ->
            <<Fld("payload", "payload", TRUE, "SettingsPayload")>>
      [] cls = "TitleParametersDidChange" ->
            <<Fld("context", "context", TRUE, "leaf"),
              Fld("payload", "payload", TRUE, "TitleParametersDidChangePayload")>>
      [] cls = "TouchTap" ->
            <<Fld("payload", "payload", TRUE, "TouchTapPayload")>>
      [] cls \in {"WillAppear", "WillDisappear"} ->
            <<Fld("payload", "payload", TRUE, "VisibilityPayload")>>
      [] OTHER -> <<>>

\* the event classes: the built-in ones and the custom ones
EventClasses == Range(DefaultEventModels) \cup CustomEventModels

\* model_fields of a class: for an event class the event field, the fields
\* of its mixins and its own fields
ModelFields(cls) ==
    IF cls \in EventClasses
    THEN <<EventField>>
         \o (IF cls \in ContextualEventMixin THEN ContextualFields ELSE <<>>)
         \o (IF cls \in DeviceSpecificEventMixin THEN <<DeviceField>> ELSE <<>>)
         \o EventPayload(cls)
    ELSE PayloadFields(cls)

\* the field of a class with the given attribute name
FieldNamed(cls, name) ==
    LET fields == ModelFields(cls)
    IN  fields[CHOOSE i \in DOMAIN fields : fields[i].name = name]

\* an instance of a model class: its class and the values of its fields
Instance(cls, values) == [cls |-> cls, fields |-> values]

RECURSIVE ValidValues(_, _)
RECURSIVE ValidFieldValues(_, _)
\* the valid values of a field: scalars are drawn from small sets
ValidValues(cls, field) ==
    CASE field.name = "event" -> {Leaf(name) : name \in ModelEventNames(cls)}
      [] field.name = "action" -> {Leaf("com.a")}
      [] field.name = "context" -> {Leaf("context1")}
      [] field.name = "device" -> {Leaf("device1")}
      [] field.type = "leaf" -> {Leaf("value")}
      [] field.type = "optional" -> {NoneLeaf, Leaf("value")}
      [] field.type \in {"False", "True"} -> {Leaf(field.type)}
      [] field.type \in DOMAIN PayloadUnions ->
            UNION {{Instance(PayloadUnions[field.type][literal], values) :
                       values \in ValidFieldValues(PayloadUnions[field.type][literal],
                                                   ModelFields(PayloadUnions[field.type][literal]))} :
                   literal \in {"False", "True"}}
      [] OTHER ->
            {Instance(field.type, values) :
                values \in ValidFieldValues(field.type, ModelFields(field.type))}

\* the valid assignments of values to a sequence of fields
ValidFieldValues(cls, fields) ==
    IF fields = <<>>
    THEN {<<>>}
    ELSE {(Head(fields).name :> value) @@ values :
             value \in ValidValues(cls, Head(fields)),
             values \in ValidFieldValues(cls, Tail(fields))}

\* the valid events of an event class
ValidEventsOf(cls) ==
    {Instance(cls, values) : values \in ValidFieldValues(cls, ModelFields(cls))}

\* the valid events of the built-in shapes
ValidEvents == UNION {ValidEventsOf(cls) : cls \in Range(DefaultEventModels)}

\* the fields of an instance that a dump with exclude_defaults keeps: every
\* field whose value differs from its default
DumpedFields(obj) ==
    {i \in DOMAIN ModelFields(obj.cls) :
        LET field == ModelFields(obj.cls)[i]
        IN  field.required \/ obj.fields[field.name] # NoneLeaf}

\* the key a field is serialised under: by_alias passed by the caller decides,
\* and the class's own serialize_by_alias setting when it is None
DumpKey(cls, field, by_alias) ==
    IF (IF by_alias = None THEN SerializeByAlias(cls) ELSE by_alias = "True")
    THEN field.alias
    ELSE field.name

RECURSIVE Dump(_, _)
\* pydantic's serialisation of a value to JSON with exclude_defaults=True: a
\* scalar as it is, a model as the object of its kept fields
Dump(obj, by_alias) ==
    IF IsLeaf(obj)
    THEN obj
    ELSE LET fields == ModelFields(obj.cls)
             kept == DumpedFields(obj)
         IN  [key \in {DumpKey(obj.cls, fields[i], by_alias) : i \in kept} |->
                 LET i == CHOOSE i \in kept : DumpKey(obj.cls, fields[i], by_alias) = key
                 IN  Dump(obj.fields[fields[i].name], by_alias)]

\* ConfiguredBaseModel.model_dump_json(): exclude_defaults is set, by_alias is
\* left as None
ModelDumpJson(obj) == Dump(obj, None)

\* the message the Stream Deck software sends for an event: every field
\* under its alias
WireMessage(obj) == Dump(obj, "True")

RECURSIVE Validate(_, _)
RECURSIVE ValidateModel(_, _)
\* validation of a JSON value against a field type
Validate(type, json) ==
    CASE type \in {"leaf", "optional"} -> IF IsLeaf(json) THEN json ELSE Invalid
      [] type \in {"False", "True"} -> IF json = Leaf(type) THEN json ELSE Invalid
      [] type \in DOMAIN PayloadUnions ->
            IF /\ ~IsLeaf(json)
               /\ "isInMultiAction" \in DOMAIN json
               /\ json["isInMultiAction"] \in {Leaf("False"), Leaf("True")}
            THEN ValidateModel(PayloadUnions[type][json["isInMultiAction"].leaf], json)
            ELSE Invalid
      [] OTHER -> ValidateModel(type, json)

\* validation of a JSON object against a model class: each field is looked
\* up under its alias; a missing field takes its default, or fails the
\* validation when it is required; keys of no field are ignored
ValidateModel(cls, json) ==
    IF IsLeaf(json)
    THEN Invalid
    ELSE LET fields == ModelFields(cls)
             value(field) ==
                 IF field.alias \in DOMAIN json
                 THEN Validate(field.type, json[field.alias])
                 ELSE IF field.required THEN Invalid ELSE NoneLeaf
         IN  IF \E i \in DOMAIN fields : value(fields[i]) = Invalid
             THEN Invalid
             ELSE Instance(cls, [name \in {fields[i].name : i \in DOMAIN fields} |->
                                    value(FieldNamed(cls, name))])

\* TypeAdapter.validate_json over the union of the given models,
\* discriminated by the event field: the first model with the event name
\* validates the message
TypeAdapterValidateJson(models, json) ==
    IF /\ ~IsLeaf(json)
       /\ "event" \in DOMAIN json
       /\ IsLeaf(json["event"])
       /\ \E i \in DOMAIN models : json["event"].leaf \in ModelEventNames(models[i])
    THEN LET i == CHOOSE i \in DOMAIN models :
                      /\ json["event"].leaf \in ModelEventNames(models[i])
                      /\ \A j \in 1..(i - 1) :
                            json["event"].leaf \notin ModelEventNames(models[j])
         IN  ValidateModel(models[i], json)
    ELSE Invalid

\* _dispatch_event: event.action if the event is a ContextualEventMixin,
\* otherwise None
EventActionUuid(e) ==
    IF e.cls \in ContextualEventMixin THEN e.fields["action"] ELSE NoneLeaf

\* the event carries an instance id: its class declares a context field
CarriesContext(e) == "context" \in DOMAIN e.fields

\* the EventAdapter objects of the model
AdapterIds == {1, 2}

\* no event instance, no JSON document, nothing decoded yet
NoInstance == [cls |-> None]

NoJson == NoneLeaf

\* EventAdapter.add_model(model) on one adapter object: the model is appended
\* to _models and its event names are merged into _event_names
AddModelTo(adapter, model) ==
    [adapter EXCEPT !.models = Append(@, model),
                    !.event_names = @ \cup ModelEventNames(model)]

RECURSIVE AddModels(_, _)
\* add_model for each model of a list, in order
AddModels(adapter, models) ==
    IF models = <<>>
    THEN adapter
    ELSE AddModels(AddModelTo(adapter, Head(models)), Tail(models))

\* EventAdapter.__init__: an empty list of models, no TypeAdapter, an empty
\* set of event names, then add_model for each of DEFAULT_EVENT_MODELS
EventAdapterInit ==
    AddModels([models |-> <<>>, event_names |-> {}, type_adapter |-> <<>>],
              DefaultEventModels)

\* no EventAdapter object has been constructed, no event is at hand
InitCodec ==
    /\ adapters = <<>>
    /\ original = NoInstance
    /\ dumped = NoJson
    /\ decoded = NoInstance

\* EventAdapter(): the object with identity a is constructed
NewEventAdapter(a) ==
    /\ a \notin DOMAIN adapters
    /\ adapters' = (a :> EventAdapterInit) @@ adapters
    /\ UNCHANGED <<original, dumped, decoded, registryVars, listenerVars, managerVars,
                   stateVars, clientVars>>

\* a mutant of AdapterAddModel: _models and _event_names are shared by all
\* EventAdapter objects
AdapterAddModelShared(a, model) ==
    /\ a \in DOMAIN adapters
    /\ Len(adapters[a].models) < Len(DefaultEventModels) + MaxAddedModels
    /\ adapters' = [b \in DOMAIN adapters |-> AddModelTo(adapters[b], model)]
    /\ UNCHANGED <<original, dumped, decoded, registryVars, listenerVars, managerVars,
                   stateVars, clientVars>>

\* add_model(model) is called on adapter a
AdapterAddModel(a, model) ==
    /\ a \in DOMAIN adapters
    /\ Len(adapters[a].models) < Len(DefaultEventModels) + MaxAddedModels
    /\ adapters' = [adapters EXCEPT ![a] = AddModelTo(@, model)]
    /\ UNCHANGED <<original, dumped, decoded, registryVars, listenerVars, managerVars,
                   stateVars, clientVars>>

\* an event of a built-in shape is constructed and serialised with
\* model_dump_json(); a behaviour follows one event
DumpEvent(e) ==
    /\ original = NoInstance
    /\ original' = e
    /\ dumped' = ModelDumpJson(e)
    /\ decoded' = NoInstance
    /\ UNCHANGED <<adapters, registryVars, listenerVars, managerVars, stateVars,
                   clientVars>>

\* the Stream Deck software sends the message of an event
ReceiveMessage(e) ==
    /\ original = NoInstance
    /\ original' = e
    /\ dumped' = WireMessage(e)
    /\ decoded' = NoInstance
    /\ UNCHANGED <<adapters, registryVars, listenerVars, managerVars, stateVars,
                   clientVars>>

\* validate_json(data) on adapter a: the type_adapter property builds the
\* TypeAdapter from _models on its first use and returns the cached one
\* afterwards; the result is the event model or ValidationError
AdapterValidate(a) ==
    /\ a \in DOMAIN adapters
    /\ dumped # NoJson
    /\ LET models == IF adapters[a].type_adapter = <<>>
                     THEN adapters[a].models
                     ELSE adapters[a].type_adapter[1]
       IN  /\ adapters' = [adapters EXCEPT ![a].type_adapter = <<models>>]
           /\ decoded' = TypeAdapterValidateJson(models, dumped)
    /\ UNCHANGED <<original, dumped, registryVars, listenerVars, managerVars,
                   stateVars, clientVars>>

\* the operations on event instances, JSON documents and EventAdapter objects
NextCodec ==
    \/ \E a \in AdapterIds : NewEventAdapter(a)
    \/ \E a \in AdapterIds, model \in CustomEventModels : AdapterAddModel(a, model)
    \/ \E e \in ValidEvents : DumpEvent(e)
    \/ \E e \in ValidEvents : ReceiveMessage(e)
    \/ \E a \in AdapterIds : AdapterValidate(a)

Init ==
    /\ InitRegistry /\ InitListener /\ InitManager /\ InitState /\ InitClient
    /\ InitCodec

SpecRegistry == Init /\ [][NextRegistry]_vars

SpecRegistryRepeat == Init /\ [][NextRegistryRepeat]_vars

SpecListener == Init /\ [][NextListener]_vars

SpecManager == Init /\ [][NextManager]_vars

SpecRun == Init /\ [][NextRun]_vars

SpecState == Init /\ [][NextState]_vars

SpecCodec == Init /\ [][NextCodec]_vars

SpecAdapter == Init /\ [][NextAdapter]_vars

\* What the scheduling guarantees: the consuming thread runs whenever it can:
\* its loop body ends, and the stop() it calls goes on until it returns or
\* waits in join(). Nothing is assumed of the sources, whose listen() may
\* block for ever.
ListenerFairness == WF_vars(Consumer)

SpecListenerFair == SpecListener /\ ListenerFairness

\* the aggregator with a consumer whose loop body may also raise
NextListenerRaise ==
    \/ NextListener
    \/ BodyRaise

SpecListenerRaise == Init /\ [][NextListenerRaise]_vars

(***************************************************************************)
(* Claims about HandlersRegistry, checked under SpecRegistry.              *)
(***************************************************************************)
\* the handler functions catalog c holds for tag
HeldHandlers(c, tag) ==
    IF IsActionBase(c)
    THEN IF tag \in Tags THEN events[c][tag] ELSE {}
    ELSE Range(MethodHandlers(tag))

\* a get_event_handlers call has been made since the last registration
Queried == lastQuery.tag # None

\* every handler catalog c holds for the queried tag was yielded once for each
\* time c was registered
YieldedInFull(c) ==
    \A f \in HeldHandlers(c, lastQuery.tag) :
        Count(lastQuery.yielded, Entry(c, f)) = Count(plugin_event_handler_catalogs, c)

\* C1: get_event_handlers(tag, B) with B not None never yields a handler owned by
\* an Action whose uuid differs from B, whatever was registered and in whatever
\* order
C1_ScopedActionFiltered ==
    (Queried /\ lastQuery.scope # None) =>
        \A i \in 1..Len(lastQuery.yielded) :
            LET c == lastQuery.yielded[i].cat
            IN  IsAction(c) => CatalogUuid(c) = lastQuery.scope

\* C1 witness: a call scoped to com.b was made while the registered Action com.a
\* held a handler for the queried tag
C1_Witness ==
    /\ Queried
    /\ lastQuery.scope = "com.b"
    /\ 1 \in Range(plugin_event_handler_catalogs)
    /\ events[1][lastQuery.tag] # {}

\* C2: every registered catalog that is not an Action (GlobalAction, PluginState)
\* has all its handlers for the tag yielded, for every scope: None, the uuid of
\* a registered Action, an unknown uuid
C2_GlobalCatalogsAlwaysYield ==
    Queried =>
        \A c \in Range(plugin_event_handler_catalogs) : ~IsAction(c) => YieldedInFull(c)

\* C2 witness: a call scoped to the registered Action com.a yielded a handler of
\* the registered GlobalAction
C2_Witness ==
    /\ Queried
    /\ lastQuery.scope = "com.a"
    /\ 1 \in Range(plugin_event_handler_catalogs)
    /\ \E f \in Funcs : Entry(3, f) \in Range(lastQuery.yielded)

\* C3: with scope None no catalog is skipped: the handlers for the tag of every
\* registered catalog, Actions included, are yielded
C3_NoneScopeYieldsAll ==
    (Queried /\ lastQuery.scope = None) =>
        \A c \in Range(plugin_event_handler_catalogs) : YieldedInFull(c)

\* C3 witness: a call with scope None yielded handlers of two different Actions
C3_Witness ==
    /\ Queried
    /\ lastQuery.scope = None
    /\ \E f, g \in Funcs : {Entry(1, f), Entry(2, g)} \subseteq Range(lastQuery.yielded)


(***************************************************************************)
(* Claims about PluginManager's dispatch loop, checked under SpecManager.  *)
(***************************************************************************)
\* catalog c is eligible for event e: it is not an Action, or the event has no
\* scope, or the event's action is the catalog's uuid
Eligible(c, e) == ~IsAction(c) \/ e.action = None \/ CatalogUuid(c) = e.action

\* how many times handler f of catalog c was called for the current event
InvokedCount(c, f) ==
    Cardinality({i \in 1..Len(invoked) : invoked[i].cat = c /\ invoked[i].fn = f})

\* the dispatch of the current event went through all handlers and is about
\* to return
DispatchCompleted == mpc = "dispatch" /\ pending = <<>>

\* the dispatch of the current event is over: about to return, or left by an
\* exception
DispatchOver == DispatchCompleted \/ (mpc = "failed" /\ event # NoEvent)

\* the scenario of C4: one Action com.a holding one keyDown handler is all that
\* is registered, and the current event is a keyDown of com.a
OneScopedHandler(f) ==
    /\ plugin_event_handler_catalogs = <<1>>
    /\ events[1] = [t \in Tags |-> IF t = "keyDown" THEN {f} ELSE {}]
    /\ event = [event |-> "keyDown", action |-> "com.a"]

\* C4 as stated: once the dispatch of a decoded event is over, every eligible
\* handler was invoked exactly once and no other handler was invoked
C4_Original ==
    DispatchOver =>
        \A c \in Range(plugin_event_handler_catalogs) :
            \A f \in HeldHandlers(c, event.event) :
                InvokedCount(c, f) = IF Eligible(c, event) THEN 1 ELSE 0

\* C4 amended: for every decoded event, every handler call is made with that
\* event to a handler that a registered, eligible catalog holds for the
\* event's name; no handler is called more often than its catalog is
\* registered; when the dispatch returns without an exception every eligible
\* handler was called exactly once per registration of its catalog; and in the
\* scenario of one Action com.a with one keyDown handler of a valid signature
\* that takes the event as its first parameter, a keyDown of com.a calls that
\* handler exactly once
C4_EligibleHandlersInvoked ==
    event # NoEvent =>
        /\ \A i \in 1..Len(invoked) :
              /\ invoked[i].cat \in Range(plugin_event_handler_catalogs)
              /\ invoked[i].fn \in HeldHandlers(invoked[i].cat, event.event)
              /\ Eligible(invoked[i].cat, event)
              /\ invoked[i].event_data = event
        /\ \A c \in Range(plugin_event_handler_catalogs) :
              \A f \in HeldHandlers(c, event.event) :
                  /\ InvokedCount(c, f) <= Count(plugin_event_handler_catalogs, c)
                  /\ (DispatchCompleted /\ Eligible(c, event)) =>
                        InvokedCount(c, f) = Count(plugin_event_handler_catalogs, c)
        /\ \A f \in HandlerFuncs :
              (/\ OneScopedHandler(f)
               /\ Signature(f) # "invalid"
               /\ CallBinds(f)
               /\ DispatchOver) =>
                  /\ Len(invoked) = 1
                  /\ invoked[1].fn = f /\ invoked[1].cat = 1 /\ invoked[1].event_data = event

\* C4 witness: the scenario itself: only Action com.a with one keyDown handler
\* is registered, a keyDown of com.a was dispatched, the handler was called
\* once with the event and the dispatch is about to return
C4_Witness ==
    /\ OneScopedHandler("g")
    /\ DispatchCompleted
    /\ invoked = <<Invocation(Entry(1, "g"), event, FALSE)>>

\* the adapter can decode the raw message: well-formed JSON whose event name
\* belongs to a model added to the adapter and whose fields fit that model
Decodable(data) == data.json /\ data.event \in event_names /\ data.payload

\* C5: a message that fails decoding (malformed JSON, an event name of no
\* model, or fields that do not fit the model) is dropped: no event is
\* yielded, no handler is called, no exception leaves the loop, which waits
\* for the next message; and every decodable message, also right after a
\* dropped one, is decoded to its event and dispatched
C5_UndecodableDropped ==
    [][(mpc = "pull" /\ mpc' # "stopped") =>
          /\ Len(message') = 1
          /\ IF Decodable(message'[1])
             THEN /\ mpc' = "dispatch"
                  /\ event'.event = message'[1].event
                  /\ \A c \in Range(plugin_event_handler_catalogs) :
                        \A f \in HeldHandlers(c, event'.event) :
                            Eligible(c, event') =>
                                Count(pending', Entry(c, f)) =
                                    Count(plugin_event_handler_catalogs, c)
             ELSE /\ mpc' = "pull"
                  /\ error' = None
                  /\ event' = NoEvent
                  /\ invoked' = <<>>
                  /\ pending' = <<>>
                  /\ UNCHANGED registryVars]_vars

\* C5 witness: the last message had a known event name and an invalid payload
\* and was dropped while a handler for that event name was registered: no
\* handler was called, no exception was raised, the manager waits for the next
\* message
C5_Witness ==
    /\ mpc = "pull"
    /\ message = <<RawMessage(TRUE, "keyDown", FALSE, None)>>
    /\ event = NoEvent
    /\ invoked = <<>>
    /\ error = None
    /\ \E c \in Range(plugin_event_handler_catalogs) : HeldHandlers(c, "keyDown") # {}


(***************************************************************************)
(* Claims about EventListenerManager, checked under SpecListener.          *)
(***************************************************************************)
\* everything that was ever put on the queue and is still known: what the
\* consumer received, then what waits in the queue
Pipeline == delivered \o event_queue

\* no stop() was requested and no sentinel was enqueued so far
NoStopRequested ==
    /\ spc = "none"
    /\ bodyStops = 0
    /\ endedBy = "none"
    /\ \A i \in 1..Len(event_queue) : ~IsSentinal(event_queue[i])

\* C6: for every source and every interleaving of the worker threads, the
\* messages of one source reach the consumer in the order the source yielded them
C6_PerSourceOrder ==
    \A i, j \in 1..Len(delivered) :
        (i < j /\ delivered[i].src = delivered[j].src) => delivered[i].n < delivered[j].n

\* C6 witness: two messages of listener 1 were delivered with a message of
\* listener 2 between them
C6_Witness ==
    /\ Len(delivered) >= 3
    /\ delivered[1] = Msg(1, 1)
    /\ delivered[2] = Msg(2, 1)
    /\ delivered[3] = Msg(1, 2)

\* the precondition of C7: two registered sources have each yielded
\* ScenarioMsgs messages and returned, and no stop was requested
TwoSourcesFinished ==
    /\ Range(listeners_lookup_by_thread) = Listeners
    /\ \A l \in Listeners : sent[l] = ScenarioMsgs /\ wpc[l] = "returned"
    /\ NoStopRequested

\* C7: with two sources that each yield 3 messages and finish, and no stop
\* requested, the consumer sequence holds exactly those 6 messages whatever the
\* interleaving: each was delivered or still waits in the queue, none twice,
\* and once 6 entries were taken they are those 6
C7_ExactlySixMessages ==
    TwoSourcesFinished =>
        /\ Len(Pipeline) = 2 * ScenarioMsgs
        /\ \A l \in Listeners : \A k \in 1..ScenarioMsgs : Count(Pipeline, Msg(l, k)) = 1

\* C7 witness: both sources finished and the consumer has taken all 6 entries
C7_Witness ==
    /\ TwoSourcesFinished
    /\ Len(delivered) = 2 * ScenarioMsgs

\* C8: the consumer sequence ends exactly when the sentinel is dequeued: a
\* dequeued sentinel ends it at once and is not yielded, anything else dequeued
\* is yielded, and once the sequence has ended nothing behind the sentinel is
\* yielded
C8_EndsAtSentinel ==
    [][/\ (cpc = "get" /\ cpc' # "get") =>
             /\ event_queue # <<>>
             /\ event_queue' = Tail(event_queue)
             /\ IF IsSentinal(Head(event_queue))
                THEN StreamEnded' /\ endedBy' = "sentinel" /\ delivered' = delivered
                ELSE cpc' = "body" /\ delivered' = Append(delivered, Head(event_queue))
       /\ StreamEnded => (StreamEnded' /\ delivered' = delivered)
       /\ \A i \in 1..Len(delivered') : ~IsSentinal(delivered'[i])]_vars

\* C8 witness: the sequence ended at a dequeued sentinel while a message was
\* still waiting behind it in the queue
C8_Witness ==
    /\ endedBy = "sentinel"
    /\ delivered # <<>>
    /\ \E i \in 1..Len(event_queue) : ~IsSentinal(event_queue[i])

\* C10: when listen() raises an exception other than StopStreaming only that
\* worker ends: nothing is enqueued (no sentinel), the running flag, the
\* consumer and the other workers are left as they were, and as long as no stop
\* is requested the manager keeps running and every message yielded by the
\* failed source and by the others is delivered or waits in the queue
C10_FailureIsolated ==
    [][/\ \A l \in Listeners :
             (wpc[l] # "failed" /\ wpc'[l] = "failed") =>
                 /\ event_queue' = event_queue
                 /\ running' = running
                 /\ cpc' = cpc /\ delivered' = delivered /\ spc' = spc
                 /\ \A o \in Listeners \ {l} : wpc'[o] = wpc[o]
       /\ \A l \in Listeners :
             (wpc'[l] = "failed" /\ NoStopRequested') =>
                 /\ running'
                 /\ \A k \in 1..sent'[l] : Count(Pipeline', Msg(l, k)) = 1
                 /\ \A o \in Listeners \ {l} : \A k \in 1..sent'[o] :
                       Count(Pipeline', Msg(o, k)) = 1]_vars

\* C10 witness: listener 1 failed after yielding, its message and one of the
\* still running listener 2 were delivered, and no stop was requested
C10_Witness ==
    /\ wpc[1] = "failed"
    /\ IsAlive(2)
    /\ NoStopRequested
    /\ Msg(1, 1) \in Range(delivered)
    /\ Msg(2, 1) \in Range(delivered)



(***************************************************************************)
(* Claims about the shutdown of EventListenerManager, checked under        *)
(* SpecListenerFair.                                                       *)
(***************************************************************************)
\* listener l's listen() has raised StopStreaming
Raised(l) == wpc[l] = "stop_streaming"

\* the consumer ended the sequence itself or called stop() from its loop body
ConsumerIntervened == endedBy = "close" \/ bodyStops > 0

\* every message listener l has yielded was delivered to the consumer
AllDelivered(l) == \A k \in 1..sent[l] : Msg(l, k) \in Range(delivered)

\* stop() was called on every registered source
AllStopCalled == \A o \in Range(listeners_lookup_by_thread) : stop_called[o]

\* stop() waits in thread.join() for a worker whose listen() has not ended
JoinBlocked == spc = "join" /\ IsAlive(listeners_lookup_by_thread[stopIdx])

\* C9 as stated: once any source has raised StopStreaming, and the consumer
\* does nothing but iterate, the consumer sequence eventually ends with every
\* message that source yielded delivered and stop() called on every registered
\* source
C9_Original ==
    \A l \in Listeners :
        Raised(l) ~> \/ ConsumerIntervened
                     \/ cpc = "ended" /\ AllDelivered(l) /\ AllStopCalled

\* C9 amended: a source that raises StopStreaming enqueues one sentinel behind
\* every message it yielded and nothing else changes; the consumer sequence
\* then ends at the first sentinel dequeued, with all messages of the source
\* that enqueued that sentinel delivered; the cleanup stop() reaches the
\* sources in the order of registration, each only after the worker threads of
\* the sources before it have ended; and it eventually returns, with stop()
\* called on every registered source and no worker alive, unless it waits in
\* join() for a worker whose listen() has not ended
C9_StopStreamingShutsDown ==
    /\ [][\A l \in Listeners :
             (~Raised(l) /\ Raised(l)') =>
                 /\ event_queue' = Append(event_queue, Sentinel(l))
                 /\ \A k \in 1..sent[l] : Msg(l, k) \in Range(Pipeline)
                 /\ UNCHANGED <<running, sent, cpc, delivered, spc, stop_called>>
                 /\ \A o \in Listeners \ {l} : wpc'[o] = wpc[o]]_vars
    /\ [][\A l \in Listeners :
             (cpc = "get" /\ cpc' # "get" /\ Head(event_queue) = Sentinel(l)) =>
                 StreamEnded' /\ endedBy' = "sentinel" /\ AllDelivered(l)']_vars
    /\ [](\A i, j \in 1..Len(listeners_lookup_by_thread) :
             (i < j /\ stop_called[listeners_lookup_by_thread[j]]) =>
                 /\ stop_called[listeners_lookup_by_thread[i]]
                 /\ ~IsAlive(listeners_lookup_by_thread[i]))
    /\ [](cpc = "ended" =>
             /\ AllStopCalled
             /\ \A o \in Range(listeners_lookup_by_thread) : ~IsAlive(o))
    /\ (\E l \in Listeners : Raised(l)) ~> (cpc = "ended" \/ JoinBlocked)

\* C9 witness: listener 2 yielded two messages and raised StopStreaming, the
\* consumer only iterated, the sequence ended at the sentinel with both
\* messages delivered, and stop() has returned after stopping both sources
C9_Witness ==
    /\ Raised(2)
    /\ sent[2] = 2
    /\ AllDelivered(2)
    /\ ~ConsumerIntervened
    /\ endedBy = "sentinel"
    /\ cpc = "ended"
    /\ stop_called[1] /\ stop_called[2]

\* ---------------------------------------------------------------------------
\* the end of event_stream and stop()

\* the threads the manager holds
Threads == 1..Len(listeners_lookup_by_thread)

\* no worker thread of the manager is alive
NoWorkerAlive == \A i \in Threads : ~IsAlive(listeners_lookup_by_thread[i])

\* a call of stop() is in progress
InStop == spc # "none"

\* C11: every step that ends the event_stream sequence (the sentinel was
\* dequeued, the consumer broke out, or the consumer's loop body raised)
\* starts stop() from the finally clause; while the generator is in its
\* finally clause that call of stop() is in progress; and once it has
\* returned (the generator has ended) no worker thread is alive
C11_StreamEndRunsStop ==
    /\ [][(~StreamEnded /\ StreamEnded')
            => /\ cpc' = "finally"
               /\ endedBy' \in {"sentinel", "close", "exception"}
               /\ spc' = "set_flag"
               /\ stopFrom' = "finally"]_vars
    /\ [](cpc = "finally" => InStop /\ stopFrom = "finally")
    /\ [](cpc = "ended" => ~InStop /\ ~running /\ NoWorkerAlive)

\* C11 witness: the consumer's loop body raised after a message of listener 1,
\* stop() ran as cleanup and returned, and both workers, which had been
\* started, are not alive
C11_Witness ==
    /\ endedBy = "exception"
    /\ cpc = "ended"
    /\ Len(listeners_lookup_by_thread) = 2
    /\ sent[1] >= 1
    /\ bodyStops = 0
    /\ NoWorkerAlive

\* C12 as stated: every call of stop() returns, whatever the sources do
C12_Original == InStop ~> ~InStop

\* C12: a call of stop() returns unless it waits in thread.join() for a
\* worker that is still alive: it sets the flag and enqueues the sentinel
\* without waiting, and it waits for nothing but the workers
C12_StopReturnsOrJoins == InStop ~> (~InStop \/ JoinBlocked)

\* C12 witness: the sequence ended at a sentinel, the cleanup stop() has called
\* stop() on a source whose listen() has not ended, and waits for its thread
C12_Witness ==
    /\ JoinBlocked
    /\ stopFrom = "finally"
    /\ endedBy = "sentinel"
    /\ stop_called[listeners_lookup_by_thread[stopIdx]]
    /\ wpc[listeners_lookup_by_thread[stopIdx]] = "listen"
    /\ ~running

\* a call of stop() is in progress and an earlier call has returned: the
\* consumer called stop() from its loop body before this call
RepeatedStop ==
    /\ InStop
    /\ \/ stopFrom = "finally" /\ bodyStops >= 1
       \/ stopFrom = "body" /\ bodyStops >= 2

AtHandler == mpc = "dispatch" /\ pending # <<>>

\* this step calls handler h with event e, command_sender bound or not; the
\* handler's body returns or raises
Calls(h, e, bound) ==
    \/ invoked' = Append(invoked, Invocation(h, e, bound))
    \/ invoked' = Append(invoked, Raising(Invocation(h, e, bound)))

\* C14 as stated: the step that processes a handler declaring command_sender
\* calls it with the event and command_sender bound, and the step that
\* processes a handler whose only parameter is event_data calls it with the
\* event alone
C14_Original ==
    [][AtHandler =>
         LET h == Head(pending) IN
         /\ IsBindableHandler(h.fn) => Calls(h, event, TRUE)
         /\ IsNotBindableHandler(h.fn) => Calls(h, event, FALSE)]_vars

\* C14: a handler that declares command_sender behind a first parameter that
\* takes the event is called with the event and command_sender bound; one
\* whose first parameter is command_sender is not called, the call raising
\* TypeError; a handler whose only parameter is event_data is called with the
\* event alone
C14_CommandSenderBound ==
    [][AtHandler =>
         LET h == Head(pending) IN
         /\ (IsBindableHandler(h.fn) /\ CallBinds(h.fn)) => Calls(h, event, TRUE)
         /\ (IsBindableHandler(h.fn) /\ ~CallBinds(h.fn)) =>
               /\ invoked' = invoked
               /\ mpc' = "failed"
               /\ error' = "TypeError"
         /\ IsNotBindableHandler(h.fn) => Calls(h, event, FALSE)]_vars

\* C14 witness: one event was dispatched to a handler declaring
\* command_sender, called with it bound, and to a handler of event_data only,
\* called without
C14_Witness ==
    /\ DispatchCompleted
    /\ Len(invoked) = 2
    /\ \E i, j \in 1..2 :
          /\ invoked[i].fn = "f" /\ invoked[i].command_sender
          /\ invoked[j].fn = "g" /\ ~invoked[j].command_sender
          /\ invoked[i].event_data = event /\ invoked[j].event_data = event

\* C15: the step that processes a handler of neither shape (no parameter
\* named command_sender, and not exactly one parameter named event_data) ends
\* the dispatch with TypeError without calling it, and no handler of neither
\* shape is ever among the handlers called
C15_InvalidSignatureTypeError ==
    /\ [][(AtHandler /\ ~IsBindableHandler(Head(pending).fn)
                     /\ ~IsNotBindableHandler(Head(pending).fn))
            => /\ mpc' = "failed"
               /\ error' = "TypeError"
               /\ invoked' = invoked]_vars
    /\ [](\A i \in 1..Len(invoked) :
             IsBindableHandler(invoked[i].fn) \/ IsNotBindableHandler(invoked[i].fn))

\* C15 witness: the dispatch of an event called one handler, reached a handler
\* of neither shape behind it and ended with TypeError
C15_Witness ==
    /\ mpc = "failed"
    /\ error = "TypeError"
    /\ pending # <<>>
    /\ Head(pending).fn = "h"
    /\ Len(invoked) = 1
    /\ invoked[1].fn # "h"

\* C16: a handler call that raised is the last call of the dispatch, which
\* was left by the exception (the remaining handlers are not called), and
\* after run() was left by an exception nothing more is processed: no
\* message is pulled, no handler is called
C16_HandlerExceptionPropagates ==
    /\ [](\A i \in 1..Len(invoked) :
             invoked[i].raised =>
                 /\ i = Len(invoked)
                 /\ mpc = "failed"
                 /\ error = "HandlerError")
    /\ [][mpc = "failed"
            => /\ mpc' = "failed"
               /\ UNCHANGED <<message, event, pending, invoked, error>>]_vars

\* C16 witness: the first of two handlers of an event raised; the dispatch and
\* run() were left by the exception with the second handler not called
C16_Witness ==
    /\ mpc = "failed"
    /\ error = "HandlerError"
    /\ Len(invoked) = 1
    /\ invoked[1].raised
    /\ Len(pending) = 1
    /\ CallBinds(Head(pending).fn)
    /\ Signature(Head(pending).fn) # "invalid"

\* ---------------------------------------------------------------------------
\* the threads: who enqueues and who processes

\* this step is a step of a started worker thread
WorkerStep == \E l \in Listeners : IsAlive(l) /\ wpc'[l] # wpc[l]

\* C17: messages are handed to processing (validation and the handler calls
\* of the consumer's loop body) by the consuming thread alone, one at a time:
\* a message is taken by a step of the consumer that is waiting in
\* queue.get(), never while the loop body of the message before it is running;
\* a worker thread's step at most appends one entry to the queue and changes
\* no state of the consumer, of the dispatcher or of the handler catalogs
C17_SequentialDispatch ==
    /\ [][delivered' # delivered
            => /\ cpc = "get"
               /\ cpc' = "body"
               /\ ~WorkerStep
               /\ event_queue # <<>>
               /\ delivered' = Append(delivered, Head(event_queue))]_vars
    /\ [][cpc = "body" => delivered' = delivered]_vars
    /\ [][WorkerStep
            => /\ UNCHANGED <<delivered, cpc, spc, stopIdx, stopFrom, running,
                             stop_called, listeners_lookup_by_thread,
                             managerVars, registryVars>>
               /\ \/ event_queue' = event_queue
                  \/ /\ Len(event_queue') = Len(event_queue) + 1
                     /\ SubSeq(event_queue', 1, Len(event_queue)) = event_queue]_vars

\* C17 witness: while the consumer's loop body runs for a message of listener
\* 1, both workers are alive and each has enqueued a further message, which
\* waits in the queue
C17_Witness ==
    /\ cpc = "body"
    /\ delivered = <<Msg(1, 1)>>
    /\ IsAlive(1) /\ IsAlive(2)
    /\ Msg(1, 2) \in Range(event_queue)
    /\ Msg(2, 1) \in Range(event_queue)
    /\ invoked = <<>>

(***************************************************************************)
(* Claims about the EventAdapter and the registrations that consult it,    *)
(* checked under SpecAdapter.                                              *)
(***************************************************************************)
\* catalog c holds a handler for an event name the adapter does not know now
HasUnknownEventName(c) ==
    \E event_name \in GetRegisteredEventNames(c) : ~EventNameExists(event_name)

\* C18: the registry grows only by a catalog all of whose event names the
\* adapter knows at that moment, and the step in which register_action raises
\* KeyError for a catalog with an unknown event name leaves the registry, the
\* catalogs and the adapter as they were
C18_UnknownEventNameRejected ==
    /\ [][plugin_event_handler_catalogs' # plugin_event_handler_catalogs
            => \E c \in CatalogIds :
                  /\ plugin_event_handler_catalogs' =
                        Append(plugin_event_handler_catalogs, c)
                  /\ ~HasUnknownEventName(c)
                  /\ error' = error]_vars
    /\ [][error' = "KeyError" /\ error # "KeyError"
            => /\ \E c \in CatalogIds : IsActionBase(c) /\ HasUnknownEventName(c)
               /\ UNCHANGED <<registryVars, event_names, type_adapter>>]_vars
    /\ [](error = "KeyError" =>
            \E c \in CatalogIds : CustomTag \in GetRegisteredEventNames(c))

\* C18 witness: Action 1 holds a handler for the custom event name; its
\* registration raised KeyError while the adapter did not know the name and
\* left the registry empty; after the custom listener was registered the same
\* call registered it
C18_Witness ==
    /\ error = "KeyError"
    /\ CustomTag \in GetRegisteredEventNames(1)
    /\ EventNameExists(CustomTag)
    /\ plugin_event_handler_catalogs = <<1>>
    /\ 2 \in Range(listeners_lookup_by_thread)

\* data is well-formed for the model of its event name
WellFormed(data) == data.json /\ data.payload

\* this step is a call of validate_json with data (a call that repeats the
\* call before it and changes nothing is a stuttering step; the step in which
\* register_action raises KeyError is none)
ValidateJsonStep(data) ==
    /\ message' = <<data>>
    /\ <<message, event, error, type_adapter>>' # <<message, event, error, type_adapter>>
    /\ ~(error' = "KeyError" /\ error # "KeyError")

\* C19 as stated: every call of validate_json with a well-formed message
\* whose event name the adapter knows at the time of the call returns the
\* event of that name, whatever calls of add_model and validate_json came
\* before
C19_Original ==
    [][\A data \in AdapterMessages :
          (ValidateJsonStep(data) /\ WellFormed(data) /\ EventNameExists(data.event))
              => event' = ValidateJson(event_names, data)]_vars

\* what the code does: validate_json decodes with the models that were
\* registered when validate_json was first called
C19_DecodesWithFirstUse ==
    /\ [][\A data \in AdapterMessages :
             ValidateJsonStep(data) =>
                 /\ type_adapter' = <<TypeAdapter>>
                 /\ IF ValidateJson(TypeAdapter, data) = ValidationError
                    THEN event' = NoEvent /\ error' = "ValidationError"
                    ELSE event' = ValidateJson(TypeAdapter, data)]_vars
    /\ [][type_adapter # <<>> => type_adapter' = type_adapter]_vars

\* the failing case of C19 is reached: the custom model was added after the
\* first validate_json, event_name_exists is true for its name, and a
\* well-formed message of that name was refused
C19_StaleAdapterReached ==
    /\ type_adapter # <<>>
    /\ EventNameExists(CustomTag)
    /\ CustomTag \notin type_adapter[1]
    /\ message = <<RawMessage(TRUE, CustomTag, TRUE, None)>>
    /\ event = NoEvent
    /\ error = "ValidationError"

\* C20: a fresh EventAdapter knows exactly the built-in event names; the known
\* names change only by gaining all the names of one model that is added, by
\* add_model or by register_event_listener, so that event_name_exists is true
\* for each of them afterwards; a registered listener's event names are all
\* known; and no known name is ever lost
C20_KnownNamesGrow ==
    /\ event_names = Tags
    /\ \A event_name \in EventNames : EventNameExists(event_name) <=> event_name \in Tags
    /\ [][event_names' # event_names
            => \E model \in CustomModels \cup {EventModels(l) : l \in Listeners} :
                  /\ event_names' = event_names \cup model
                  /\ \A event_name \in model : EventNameExists(event_name)']_vars
    /\ [][event_names \subseteq event_names']_vars
    /\ [](\A i \in Threads : EventModels(listeners_lookup_by_thread[i]) \subseteq event_names)
    /\ [](Tags \subseteq event_names)

\* C20 witness: the custom listener was registered and the model of two event
\* names was added; all their names are known besides the built-in ones
C20_Witness ==
    /\ 2 \in Range(listeners_lookup_by_thread)
    /\ event_names = Tags \cup {CustomTag} \cup TestTags
    /\ \A event_name \in TestTags : EventNameExists(event_name)
    /\ ~EventNameExists(BogusTag)

\* ---- C21: order of the handlers of one catalog ----

\* the functions the last get_event_handlers call yielded for catalog c
CatalogYield(c) ==
    LET own == SelectSeq(lastQuery.yielded, LAMBDA e : e.cat = c)
    IN  [i \in 1..Len(own) |-> own[i].fn]

\* the last call was made, and catalog c, registered once, was eligible for it
QueriedOnce(c) ==
    /\ lastQuery.tag # None
    /\ Count(plugin_event_handler_catalogs, c) = 1
    /\ ~Skipped(c, lastQuery.scope)

Positions(c) ==
    {k \in 1..Len(plugin_event_handler_catalogs) : plugin_event_handler_catalogs[k] = c}

\* C22: get_event_handlers goes through the catalogs in the order of their
\* registration: a handler yielded before another one comes from a catalog
\* registered no later than the catalog of the other, so every eligible
\* handler of an earlier catalog precedes every handler of a later catalog.
C22_CatalogsInRegistrationOrder ==
    \A j \in 1..Len(lastQuery.yielded) : \A i \in 1..(j - 1) :
        /\ Positions(lastQuery.yielded[i].cat) # {}
        /\ Positions(lastQuery.yielded[j].cat) # {}
        /\ \E a \in Positions(lastQuery.yielded[i].cat) :
               \E b \in Positions(lastQuery.yielded[j].cat) : a <= b
        /\ (Count(plugin_event_handler_catalogs, lastQuery.yielded[i].cat) = 1
              /\ Count(plugin_event_handler_catalogs, lastQuery.yielded[j].cat) = 1)
             => \A a \in Positions(lastQuery.yielded[i].cat) :
                    \A b \in Positions(lastQuery.yielded[j].cat) : a <= b

\* three catalogs, each registered once and each with a handler of the tag,
\* were yielded from, and the first one registered is not the smallest id
C22_Witness ==
    /\ Len(plugin_event_handler_catalogs) = 3
    /\ \A c \in Range(plugin_event_handler_catalogs) :
           Count(plugin_event_handler_catalogs, c) = 1
    /\ plugin_event_handler_catalogs[1] > plugin_event_handler_catalogs[2]
    /\ Len(lastQuery.yielded) = 3
    /\ \A k \in 1..3 : lastQuery.yielded[k].cat = plugin_event_handler_catalogs[k]

\* ---- C23: handler entries are de-duplicated ----

\* C23: a function registered more than once for a tag on one catalog is
\* stored as a single entry and yielded once, and distinct functions
\* registered for the same tag are all stored and yielded.
C23_DeduplicatedByIdentity ==
    \A c \in CatalogIds : \A t \in DOMAIN registration_order[c] :
        IsActionBase(c) =>
            /\ t \in DOMAIN events[c]
            /\ events[c][t] = Range(registration_order[c][t])
            /\ (QueriedOnce(c) /\ lastQuery.tag = t)
                 => \A f \in Range(registration_order[c][t]) :
                        Count(CatalogYield(c), f) = 1

\* the same function was registered twice for a tag and yielded once
C23_Witness ==
    /\ QueriedOnce(1)
    /\ Count(registration_order[1][lastQuery.tag], "f") = 2
    /\ CatalogYield(1) = <<"f">>

\* ---- C24: willAppear ----

\* the path named by the last call, and the node at a path
HandledPath == <<handled.device, handled.action, handled.context>>

Node(tree, path) == tree[path[1]].actions[path[2]][path[3]]

\* C24: when a willAppear event for (d, a, i) has been handled, the node of
\* (d, a, i) holds the settings of the payload, i is in action_instances, and
\* the node's coordinates are those of a single-action payload, or, for a
\* multi-action payload, what they were before (None on a node just created).
C24_WillAppearSetsInitialState ==
    [][handled'.name = "willAppear" =>
          /\ HandledPath' \in Paths(state_data')
          /\ Node(state_data', HandledPath').settings = handled'.settings
          /\ handled'.context \in action_instances'
          /\ Node(state_data', HandledPath').coordinates =
                IF handled'.coordinates # None
                THEN handled'.coordinates
                ELSE IF HandledPath' \in Paths(state_data)
                     THEN Node(state_data, HandledPath').coordinates
                     ELSE None]_vars

\* a multi-action willAppear was handled for a node that had coordinates and
\* other settings, and the node has the new settings and the old coordinates
C24_Witness ==
    /\ handled.name = "willAppear"
    /\ handled.coordinates = None
    /\ handled.settings # EmptySettings
    /\ HandledPath \in Paths(state_data)
    /\ Node(state_data, HandledPath).coordinates \in CoordinatesValues
    /\ Node(state_data, HandledPath).settings = handled.settings
    /\ handled.context \in action_instances

\* ---- C25: deviceDidDisconnect ----

\* C25: when a deviceDidDisconnect event for device d has been handled, d is
\* not a key of the tree and no instance id that was nested under d is in
\* action_instances; for a device that was not in the tree nothing changes.
C25_DisconnectRemovesDeviceAndInstances ==
    [][handled'.name = "deviceDidDisconnect" =>
          /\ handled'.device \notin DOMAIN state_data'
          /\ IF handled'.device \in DOMAIN state_data
             THEN NestedInstances(state_data[handled'.device]) \cap action_instances' = {}
             ELSE /\ state_data' = state_data
                  /\ action_instances' = action_instances]_vars

\* device1 was disconnected while the instance of device2 is tracked: the
\* node of device2 is in the tree and only its instance is in action_instances
C25_Witness ==
    /\ handled.name = "deviceDidDisconnect"
    /\ handled.device = "device1"
    /\ DOMAIN state_data = {"device2"}
    /\ action_instances = {"context3"}

\* ---- C26: didReceiveSettings ----

\* C26: a didReceiveSettings event for (d, a, i) sets the settings of the node
\* of (d, a, i), creating the path when it is missing, and changes nothing
\* else: the node's coordinates, every other node, the device infos and
\* action_instances are as before.
C26_DidReceiveSettingsOnlySettings ==
    [][handled'.name = "didReceiveSettings" =>
          /\ Paths(state_data') = Paths(state_data) \cup {HandledPath'}
          /\ Node(state_data', HandledPath').settings = handled'.settings
          /\ Node(state_data', HandledPath').coordinates =
                IF HandledPath' \in Paths(state_data)
                THEN Node(state_data, HandledPath').coordinates
                ELSE None
          /\ \A p \in Paths(state_data) \ {HandledPath'} :
                Node(state_data', p) = Node(state_data, p)
          /\ DOMAIN state_data' = DOMAIN state_data \cup {handled'.device}
          /\ \A d \in DOMAIN state_data : state_data'[d].info = state_data[d].info
          /\ action_instances' = action_instances]_vars

\* a didReceiveSettings event was handled for a node with coordinates while
\* another node with other settings is in the tree
C26_Witness ==
    /\ handled.name = "didReceiveSettings"
    /\ HandledPath \in Paths(state_data)
    /\ Node(state_data, HandledPath).coordinates \in CoordinatesValues
    /\ Node(state_data, HandledPath).settings = handled.settings
    /\ \E p \in Paths(state_data) :
          Node(state_data, p).settings # handled.settings

\* ---- C27: deviceDidConnect ----

\* C27: a deviceDidConnect event for device d inserts a node with the event's
\* device info and no actions when d is absent, and changes nothing when d is
\* in the tree, so that handling the event again changes nothing.
C27_ConnectInsertsOnce ==
    [][handled'.name = "deviceDidConnect" =>
          /\ action_instances' = action_instances
          /\ IF handled'.device \in DOMAIN state_data
             THEN state_data' = state_data
             ELSE /\ DOMAIN state_data' = DOMAIN state_data \cup {handled'.device}
                  /\ state_data'[handled'.device] =
                        [info |-> handled'.info, actions |-> <<>>]
                  /\ \A d \in DOMAIN state_data : state_data'[d] = state_data[d]]_vars

\* a deviceDidConnect event with another device info was handled for a device
\* that is in the tree with its first info and an instance node
C27_Witness ==
    /\ handled.name = "deviceDidConnect"
    /\ handled.device \in DOMAIN state_data
    /\ state_data[handled.device].info \in Infos \ {handled.info}
    /\ NestedInstances(state_data[handled.device]) # {}

\* ---- C28: reading creates the path ----

\* C28: reading data[d].actions[a][i].settings for a path that is not in the
\* tree returns the empty map, and afterwards d, a and i are nodes of the
\* tree, the instance node being the default one.
C28_ReadCreatesDefaults ==
    [][(handled'.name = "read" /\ HandledPath' \notin Paths(state_data)) =>
          /\ handled'.returned = EmptySettings
          /\ handled'.device \in DOMAIN state_data'
          /\ handled'.action \in DOMAIN state_data'[handled'.device].actions
          /\ handled'.context \in
                DOMAIN state_data'[handled'.device].actions[handled'.action]
          /\ Node(state_data', HandledPath') = ActionInstanceDataDictModel]_vars

\* a read of a path of device2 was made while only device1 is connected with
\* one instance with settings: the read returned the empty map and the path
\* is in the tree under a device node without info
C28_Witness ==
    /\ handled.name = "read"
    /\ handled.device = "device2"
    /\ handled.returned = EmptySettings
    /\ DOMAIN state_data = Devices
    /\ state_data["device2"].info = None
    /\ state_data["device1"].info \in Infos
    /\ HandledPath \in Paths(state_data)
    /\ \E p \in Paths(state_data) : Node(state_data, p).settings # EmptySettings

\* ---- C29: a tracked instance stays tracked ----

\* C29: an instance id in action_instances leaves the set only in the
\* handling of a willDisappear event for it or of a deviceDidDisconnect event
\* for its device: until then it is in the set in every state.
C29_TrackedUntilEvicted ==
    [][\A i \in Instances :
          (i \in action_instances /\ i \notin action_instances') =>
              \/ handled'.name = "willDisappear" /\ handled'.context = i
              \/ handled'.name = "deviceDidDisconnect" /\ handled'.device = DeviceOf(i)]_vars

\* device2 was disconnected and the two instances of device1 are still
\* tracked, with their nodes in the tree
C29_Witness ==
    /\ handled.name = "deviceDidDisconnect"
    /\ handled.device = "device2"
    /\ action_instances = {"context1", "context2"}
    /\ NestedInstances(state_data["device1"]) = {"context1", "context2"}

\* ---- C30: willDisappear ----

\* C30 as stated: when a willDisappear event for instance i has been handled,
\* i is not in action_instances.
C30_Original ==
    handled.name = "willDisappear" => handled.context \notin action_instances


\* what the code does with a willDisappear event: the tree and
\* action_instances are as before
C30_WillDisappearChangesNothing ==
    [][handled'.name = "willDisappear" =>
          /\ state_data' = state_data
          /\ action_instances' = action_instances]_vars

\* a willDisappear event for a tracked instance was handled and the instance
\* is still tracked
C30_StillTrackedReached ==
    /\ handled.name = "willDisappear"
    /\ handled.context \in action_instances
    /\ HandledPath \in Paths(state_data)

\* ---------------------------------------------------------------------------
\* C31  (SpecListenerFair)
\* ---------------------------------------------------------------------------

\* listener l is the only listener of the manager
SoleListener(l) == Range(listeners_lookup_by_thread) = {l}

RegistrationsSent ==
    Cardinality({i \in DOMAIN sent_events : sent_events[i].event = RegisterEvent})

\* C32: run() sends the registration command exactly once: it is sent over an
\* established connection, before any message has been pulled from the stream
\* or a handler called, and once the loop over the stream has started exactly
\* one registration command, carrying the plugin registration uuid, was sent
C32_RegistrationOnceBeforeStream ==
    /\ [](RegistrationsSent <= 1)
    /\ [](mpc \in {"pull", "dispatch", "stopped"} =>
            sent_events = <<[event |-> RegisterEvent, uuid |-> RegistrationUuid]>>)
    /\ []((message # <<>> \/ event # NoEvent \/ invoked # <<>>) => RegistrationsSent = 1)
    /\ [][sent_events' # sent_events =>
            /\ client = "connected"
            /\ client' = "connected"
            /\ sent_events = <<>>
            /\ message = <<>> /\ message' = <<>>
            /\ invoked = <<>> /\ invoked' = <<>>]_vars

\* C32 witness: a handler has been called for a decoded event, over a
\* connection on which the registration command is the one message sent
C32_Witness ==
    /\ mpc = "dispatch"
    /\ client = "connected"
    /\ invoked # <<>>
    /\ sent_events = <<[event |-> RegisterEvent, uuid |-> RegistrationUuid]>>

\* ---------------------------------------------------------------------------
\* C33, C34, C36  (SpecCodec)
\* ---------------------------------------------------------------------------

\* validate_json has returned an event model for the document at hand
Decoded == decoded \notin {NoInstance, Invalid}

\* validate_json has been called on the document at hand
Validated == decoded # NoInstance

\* the document at hand is what model_dump_json() made of the event at hand
IsDumpOfOriginal == original # NoInstance /\ dumped = ModelDumpJson(original)

\* C33 as stated: for an event of any built-in shape, validate_json of its
\* model_dump_json() yields an event equal to it (same class, same fields)
C33_Original == (Validated /\ IsDumpOfOriginal) => decoded = original

\* C33, what the code does: the round trip yields an equal event for every
\* built-in shape but TitleParametersDidChange, whose dump never validates
C33_RoundTripButTitleParameters ==
    (Validated /\ IsDumpOfOriginal) =>
        IF original.cls = "TitleParametersDidChange"
        THEN decoded = Invalid
        ELSE decoded = original

\* C33: a TitleParametersDidChange event was dumped and validate_json
\* rejected the dump
C33_TitleParametersRejected ==
    /\ Validated
    /\ IsDumpOfOriginal
    /\ original.cls = "TitleParametersDidChange"
    /\ decoded = Invalid

\* C34: a step that adds a model to one EventAdapter object appends that
\* model to its _models and merges its event names into its _event_names,
\* and leaves _models and _event_names of every other EventAdapter object as
\* they were
C34_AdaptersIndependent ==
    [][\A a \in DOMAIN adapters :
          adapters'[a].models # adapters[a].models =>
              /\ \E model \in CustomEventModels :
                    /\ adapters'[a].models = Append(adapters[a].models, model)
                    /\ adapters'[a].event_names =
                           adapters[a].event_names \cup ModelEventNames(model)
              /\ \A b \in DOMAIN adapters \ {a} :
                    /\ adapters'[b].models = adapters[b].models
                    /\ adapters'[b].event_names = adapters[b].event_names]_vars

\* C34 witness: a custom model was added to adapter 1 and adapter 2 still has
\* the default models and event names only
C34_Witness ==
    /\ DOMAIN adapters = AdapterIds
    /\ adapters[1].models = Append(DefaultEventModels, "CustomEvent")
    /\ CustomTag \in adapters[1].event_names
    /\ adapters[2].models = DefaultEventModels
    /\ CustomTag \notin adapters[2].event_names

\* C36 as stated: a decoded event carries an instance id (a context field)
\* exactly when the dispatcher gives it a scope (the action of a
\* ContextualEventMixin)
C36_Original ==
    Decoded => (CarriesContext(decoded) <=> EventActionUuid(decoded) # NoneLeaf)

\* C36, what the code does: every event the dispatcher gives a scope carries
\* an instance id, and the one shape that carries an instance id and gets
\* the scope None is TitleParametersDidChange
C36_ScopedCarriesContext ==
    Decoded =>
        /\ EventActionUuid(decoded) # NoneLeaf => CarriesContext(decoded)
        /\ (CarriesContext(decoded) /\ EventActionUuid(decoded) = NoneLeaf)
               => decoded.cls = "TitleParametersDidChange"

\* C36: a titleParametersDidChange message was decoded: the event carries an
\* instance id and the dispatcher's scope for it is None
C36_UnscopedContextReached ==
    /\ Decoded
    /\ decoded.cls = "TitleParametersDidChange"
    /\ CarriesContext(decoded)
    /\ EventActionUuid(decoded) = NoneLeaf

\* ---------------------------------------------------------------------------
\* C35, C38, C39  (SpecState)
\* ---------------------------------------------------------------------------

\* the (device, action) pairs that have an action node in the tree
ActionNodes(tree) ==
    UNION {{<<d, a>> : a \in DOMAIN tree[d].actions} : d \in DOMAIN tree}

\* C35: a step that handles anything but deviceDidDisconnect (deviceDidConnect,
\* willAppear, didReceiveSettings, willDisappear, a read) keeps every device
\* node, action node and instance node of the tree; handling
\* deviceDidDisconnect for a device leaves the nodes of every other device
\* as they were
C35_NodesRemovedOnlyByDisconnect ==
    [][/\ handled'.name # "deviceDidDisconnect" =>
            /\ DOMAIN state_data \subseteq DOMAIN state_data'
            /\ ActionNodes(state_data) \subseteq ActionNodes(state_data')
            /\ Paths(state_data) \subseteq Paths(state_data')
       /\ handled'.name = "deviceDidDisconnect" =>
            \A d \in DOMAIN state_data \ {handled'.device} :
                d \in DOMAIN state_data' /\ state_data'[d] = state_data[d]]_vars

\* C35 witness: a willAppear event was handled for an action that had an
\* instance node before, and both instance nodes are in the tree
C35_Witness ==
    /\ handled.name = "willAppear"
    /\ handled.context = "context3"
    /\ Paths(state_data) = {<<"device1", "com.a", "context1">>,
                            <<"device2", "com.a", "context3">>,
                            <<"device1", "com.b", "context2">>}

\* the instance ids that have an instance node somewhere in the tree
InstanceNodes(tree) == {path[3] : path \in Paths(tree)}

\* C38: every id in action_instances has an instance node in the tree
C38_TrackedHaveNodes == action_instances \subseteq InstanceNodes(state_data)

\* C38 witness: after a disconnect of device2, whose instance had appeared,
\* context1 is tracked and has its node, and context2 has a node (from a
\* didReceiveSettings event or a read) without being tracked
C38_Witness ==
    /\ handled.name = "deviceDidDisconnect"
    /\ handled.device = "device2"
    /\ action_instances = {"context1"}
    /\ InstanceNodes(state_data) = {"context1", "context2"}

\* C39 as stated: when a deviceDidConnect event for device d has been handled,
\* data[d].info is a device info, never None
C39_Original ==
    handled.name = "deviceDidConnect" =>
        /\ handled.device \in DOMAIN state_data
        /\ state_data[handled.device].info \in Infos

\* C39, what the code does: a step gives a device node a device info only by
\* creating the node for a deviceDidConnect event, with the info of that
\* event; a node created otherwise has the info None, and the info of a node
\* that exists is never changed
C39_InfoSetOnlyOnInsert ==
    [][\A d \in DOMAIN state_data' :
          IF d \in DOMAIN state_data
          THEN state_data'[d].info = state_data[d].info
          ELSE state_data'[d].info =
                   IF handled'.name = "deviceDidConnect" THEN handled'.info ELSE None]_vars

\* C39: a deviceDidConnect event was handled for a device whose node an
\* earlier willAppear event had created, and the node's info is None
C39_ConnectedWithoutInfo ==
    /\ handled.name = "deviceDidConnect"
    /\ handled.device \in DOMAIN state_data
    /\ state_data[handled.device].info = None
    /\ NestedInstances(state_data[handled.device]) \cap action_instances # {}

\* ---------------------------------------------------------------------------
\* C37  (SpecAdapter)
\* ---------------------------------------------------------------------------

\* the catalogs registered with the manager
RegisteredCatalogs == Range(plugin_event_handler_catalogs)

\* C37 as stated: every event name for which a registered catalog holds a
\* handler is known to the manager's EventAdapter
C37_Original ==
    \A c \in RegisteredCatalogs :
        \A event_name \in GetRegisteredEventNames(c) : EventNameExists(event_name)

\* C37, what the code does: the event names of a catalog are checked when
\* register_action registers it: the names it holds at that step are known
\* to the EventAdapter
C37_CheckedAtRegistration ==
    [][\A c \in CatalogIds :
          (c \notin RegisteredCatalogs /\ c \in RegisteredCatalogs') =>
              \A event_name \in GetRegisteredEventNames(c) :
                  EventNameExists(event_name)]_vars

\* C37: a catalog was registered and a handler was then added to it for an
\* event name the EventAdapter does not know
C37_UnknownNameRegistered ==
    \E c \in RegisteredCatalogs :
        /\ CustomTag \in GetRegisteredEventNames(c)
        /\ ~EventNameExists(CustomTag)

\* ---------------------------------------------------------------------------
\* C40  (SpecListener)
\* ---------------------------------------------------------------------------

\* stop() has set the running flag to false
StopFlagDown == ~running /\ cpc # "idle"

\* the worker thread of listener l has left its loop
LeftLoop(l) == wpc[l] \in {"returned", "stop_streaming", "failed"}

\* C40: once stop() has cleared the running flag it stays cleared; a worker
\* that enqueues a message while the flag is cleared goes on to test the
\* flag, and from that test it can only leave its loop; a worker that has
\* left its loop enqueues nothing more. So each worker enqueues at most one
\* message after the flag was cleared.
C40_AtMostOneAfterStop ==
    /\ [][StopFlagDown => StopFlagDown']_vars
    /\ [][\A l \in Listeners :
             (StopFlagDown /\ sent'[l] # sent[l]) =>
                 /\ sent'[l] = sent[l] + 1
                 /\ wpc[l] = "listen"
                 /\ wpc'[l] = "check"]_vars
    /\ [][\A l \in Listeners :
             (StopFlagDown /\ wpc[l] = "check" /\ wpc'[l] # "check") =>
                 LeftLoop(l)']_vars
    /\ [][\A l \in Listeners :
             LeftLoop(l) => /\ LeftLoop(l)'
                            /\ sent'[l] = sent[l]]_vars

\* C40 witness: no listener raised StopStreaming, so the sentinel in the queue
\* is the one stop() enqueued after clearing the flag; listener 1 enqueued
\* its last message behind that sentinel and has left its loop
C40_Witness ==
    /\ StopFlagDown
    /\ \A l \in Listeners : ~Raised(l)
    /\ wpc[1] = "returned"
    /\ sent[1] >= 2
    /\ \E i, j \in DOMAIN event_queue :
          /\ i < j
          /\ IsSentinal(event_queue[i])
          /\ event_queue[j] = Msg(1, sent[1])

=============================================================================
